---- MODULE Spec2Model ----
(***************************************************************************)
(* A model of the facilitator settlement subsystem of facinet:             *)
(*   - the facilitator storage functions of lib/networks.ts                *)
(*     (getFacilitator, storeFacilitator, updateFacilitatorStatus,         *)
(*     recordPayment) over a shared Redis store,                           *)
(*   - POST /api/x402/settle-custom  (single settlement),                  *)
(*   - POST /api/x402/settle-batch   (batch settlement),                   *)
(*   - POST /api/facilitator/check-and-activate (funding monitor),         *)
(*   - GET /api/facilitator/list with the callbacks of its reconciliation  *)
(*     loop, and GET /api/facilitator/balance.                             *)
(* Every request is a process; a process is suspended at each await of     *)
(* the source, so requests interleave at the Redis commands, the RPC calls *)
(* and the audit-log calls.                                                *)
(***************************************************************************)
EXTENDS Integers, Sequences, FiniteSets, TLC

\* ------------------------------------------------------------------------
\* Bounds of the model
\* ------------------------------------------------------------------------
\* the longest authorizations array of a batch request
MaxLegs == 3
\* the last reading of Date.now()
MaxClock == 2

\* ------------------------------------------------------------------------
\* Values
\* ------------------------------------------------------------------------
\* a missing (undefined / null / empty) JavaScript string value
Undefined == "undefined"

Tasks == {"t1", "t2"}

\* the callbacks a listing request runs under Promise.all, one for each
\* listed facilitator
Callbacks == {"k1", "k2"}

\* the requests and the callbacks
Procs == Tasks \cup Callbacks

\* ids a request may name: "f1" is stored; "f2" is stored in the directory
\* of two facilitators only
Ids == {"f1", "f2"}

\* the keys of NETWORK_CONFIGS
NETWORK_CONFIGS ==
    {"avalanche-fuji", "ethereum-sepolia", "base-sepolia", "polygon-amoy",
     "arbitrum-sepolia", "monad-testnet"}

\* the network given to records that have none
DEFAULT_NETWORK == "avalanche-fuji"

\* the chain id given to records that have none
DEFAULT_CHAIN_ID == 43113

\* config.chain.id of each registry entry
ChainIdOf(network) ==
    CASE network = "avalanche-fuji" -> 43113
      [] network = "base-sepolia" -> 84532
      [] network = "monad-testnet" -> 10143
      [] network = "ethereum-sepolia" -> 11155111
      [] network = "polygon-amoy" -> 80002
      [] network = "arbitrum-sepolia" -> 421614
      [] OTHER -> 0

\* the keys of USDC_CONTRACTS
USDC_CONTRACTS == {"avalanche-fuji", "ethereum-sepolia", "base-sepolia", "polygon-amoy"}

\* USDC_CONTRACTS[network].address: the token address getUSDCContract
\* returns; the one of every network but avalanche-fuji comes from the
\* environment
USDC_CONTRACT_ADDRESS(network) ==
    CASE network = "avalanche-fuji" -> "0x5425890298aed601595a70AB815c96711a31Bc65"
      [] OTHER -> "0x036CbD53842c5426634e7929541eC2318f3dCF7e"

\* NETWORK_CONFIGS[network].usdcAddress when the environment names no other
usdcAddress(network) ==
    CASE network = "avalanche-fuji" -> "0x5425890298aed601595a70AB815c96711a31Bc65"
      [] network = "base-sepolia" -> "0x036CbD53842c5426634e7929541eC2318f3dCF7e"
      [] network = "ethereum-sepolia" -> "0x1c7D4B196Cb0C7B01d743Fbc6116a902379C7238"
      [] network = "polygon-amoy" -> "0x41E94Eb019C0762f9Bfcf9Fb1E58725BfB0e7582"
      [] network = "arbitrum-sepolia" -> "0x75faf114eafb1BDbe2F0316DF893fd58CE46AA4d"
      [] OTHER -> "0x534b2f3A21130d7a60830c2Df862319e593943A3"

\* NETWORK_CONFIGS[network].erc3009Domain.verifyingContract when the
\* environment names no other
erc3009DomainVerifyingContract(network) ==
    CASE network = "avalanche-fuji" -> "0x5425890298aed601595a70AB815c96711a31Bc65"
      [] network = "ethereum-sepolia" -> "0x1c7D4B196Cb0C7B01d743Fbc6116a902379C7238"
      [] network = "base-sepolia" -> "0x036CbD53842c5426634e7929541eC2318f3dCF7e"
      [] network = "polygon-amoy" -> "0x41E94Eb019C0762f9Bfcf9Fb1E58725BfB0e7582"
      [] network = "arbitrum-sepolia" -> "0x75faf114eafb1BDbe2F0316DF893fd58CE46AA4d"
      [] OTHER -> "0x534b2f3A21130d7a60830c2Df862319e593943A3"

\* an erc3009Domain.chainId that is the one of avalanche-fuji everywhere
erc3009DomainChainIdOfFuji(network) == 43113

\* NETWORK_CONFIGS[network].erc3009Domain.chainId
erc3009DomainChainId(network) ==
    CASE network = "avalanche-fuji" -> 43113
      [] network = "ethereum-sepolia" -> 11155111
      [] network = "base-sepolia" -> 84532
      [] network = "polygon-amoy" -> 80002
      [] network = "arbitrum-sepolia" -> 421614
      [] OTHER -> 10143

\* what process.env.NEXT_PUBLIC_USDC_ADDRESS_<NETWORK> may hold
EnvAddresses == {Undefined, "", "0xA0b86991c6218b36c1d19D4a2e9Eb0cE3606eB48"}

\* a || b of JavaScript on strings
OrElse(a, b) == IF a \in {Undefined, ""} THEN b ELSE a

\* getNetworkConfig(networkName) for a supported network, envAddress being
\* the token address the environment gives for it; the entry of
\* avalanche-fuji reads no environment
getNetworkConfig(networkName, envAddress) ==
    [name |-> networkName,
     chain |-> [id |-> ChainIdOf(networkName)],
     usdcAddress |-> IF networkName = "avalanche-fuji" THEN usdcAddress(networkName)
                     ELSE OrElse(envAddress, usdcAddress(networkName)),
     usdcDecimals |-> 6,
     erc3009Domain |->
         [version |-> "2", chainId |-> erc3009DomainChainId(networkName),
          verifyingContract |->
              IF networkName = "avalanche-fuji" THEN erc3009DomainVerifyingContract(networkName)
              ELSE OrElse(envAddress, erc3009DomainVerifyingContract(networkName))]]

\* balance at or below which a facilitator counts as unfunded, in units of
\* 10^-6 native token (0.0001 token)
DEACTIVATION_THRESHOLD == 100

\* RECOMMENDED_BALANCES[network] || 0.1, in the same unit
RECOMMENDED_BALANCES(network) ==
    CASE network = "base-sepolia" -> 50000
      [] OTHER -> 100000

\* the balances an RPC node may report (same unit; formatEther and
\* parseFloat keep the order of balances that differ by a wei or more at
\* this magnitude): around the threshold, and between the recommended
\* balances of base-sepolia and avalanche-fuji
Balances == {DEACTIVATION_THRESHOLD - 1, DEACTIVATION_THRESHOLD, DEACTIVATION_THRESHOLD + 1,
             RECOMMENDED_BALANCES("base-sepolia") + 1}

\* no balance read yet
NoBalance == -1

\* Number.NaN, the result of parseInt on a string without leading digits
NaN == -1

\* the network and chainId query parameters of listing requests
ListNetworkParams == {Undefined, "avalanche-fuji", "base-sepolia", "solana-devnet"}
ListChainIdParams == {Undefined, "84532", "84532abc", "abc", "1"}

\* the network query parameter of balance requests
BalanceNetworkParams == {Undefined, "base-sepolia", "solana-devnet"}

\* the network and chainId values of single settlement requests
SingleNetworks == {Undefined, "base-sepolia", "monad-testnet"}
SingleChainIds == {0, 43113}

\* the network and chainId values of single settlement requests, with names
\* and chain ids outside the registry
AnyNetworks == {Undefined, "avalanche-fuji", "base-sepolia", "monad-testnet", "solana-devnet"}
AnyChainIds == {0, 1, 43113, 84532}

\* the values of the address fields of single settlement requests: usdcAddress,
\* contractAddress, verifyingContract and paymentPayload.domain.verifyingContract
BodyUsdcAddresses == {Undefined, "0x", "0x1111111111111111111111111111111111111111"}
BodyContractAddresses == {Undefined, "0x2222222222222222222222222222222222222222"}
BodyVerifyingContracts == {Undefined, "0x3333", "0x3333333333333333333333333333333333333333"}
DomainVerifyingContracts == {Undefined, "0x4444444444444444444444444444444444444444"}

\* the network values of batch settlement requests
BatchNetworks == {Undefined, "avalanche-fuji", "base-sepolia"}

\* the address that created the stored facilitators, as the record spells
\* it and in lower case
OWNER == "0xAbCdEfAbCdEfAbCdEfAbCdEfAbCdEfAbCdEfAbCd"
OWNER_LOWER == "0xabcdefabcdefabcdefabcdefabcdefabcdefabcd"

\* another address
STRANGER == "0x9999999999999999999999999999999999999999"

\* the userAddress values of delete requests
UserAddresses == {Undefined, OWNER, OWNER_LOWER, STRANGER}

\* String.prototype.toLowerCase on the addresses of the model
toLowerCase(str) == IF str = OWNER THEN OWNER_LOWER ELSE str

\* the fields of create-from-existing requests: names of 2, 3, 50 and 51
\* characters, addresses that match /^0x[a-fA-F0-9]{40}$/ or do not
CreateNames ==
    {Undefined, "ab", "abc",
     "12345678901234567890123456789012345678901234567890",
     "123456789012345678901234567890123456789012345678901"}
CreatePasswords == {Undefined, "password"}
CreateRecipients ==
    {Undefined, "0x8888888888888888888888888888888888888888",
     "0x88888888", "0xZZZZZZZZZZZZZZZZZZZZZZZZZZZZZZZZZZZZZZZZ"}
CreateCreators == {Undefined, OWNER_LOWER, STRANGER, "0x99999999999999999999999999999999999999999"}
CreateTxHashes == {Undefined, "0xregistration"}
CreateNetworks == {Undefined, "base-sepolia", "solana-devnet"}
CreateChainIds == {0, 43113, 84532}

\* the strings of the model with a character outside 0-9, a-f, A-F after
\* their first two
NonHexStrings == {"0xZZZZZZZZZZZZZZZZZZZZZZZZZZZZZZZZZZZZZZZZ"}

\* str.match(/^0x[a-fA-F0-9]{40}$/); every string of the model that is 42
\* characters long starts with 0x
MatchesAddress(str) == Len(str) = 42 /\ str \notin NonHexStrings

\* the network query parameter of random-selection requests
RandomNetworkParams == {Undefined, "base-sepolia", "solana-devnet"}

\* no record: redis.get returned null
NoRec == [status |-> "absent"]

\* no response sent yet
NoResp == [status |-> 0]

VARIABLES
    store,        \* Redis: facilitator id -> stored record, or NoRec
    activeList,   \* Redis set 'facilitators:active'
    chain,        \* the transactions submitted so far, in submission order
    sink,         \* audit events appended by logEvent
    sinkFailures, \* audit events whose append failed
    now,          \* the clock read by Date.now()
    proc          \* the requests: position and local variables of each

vars == <<store, activeList, chain, sink, sinkFailures, now, proc>>

\* ------------------------------------------------------------------------
\* Network registry (lib/networks.ts, lib/contracts.ts)
\* ------------------------------------------------------------------------
isNetworkSupported(networkName) == networkName \in NETWORK_CONFIGS

\* the name of the registry entry with this chain id, or Undefined (null)
getNetworkByChainId(chainId) ==
    IF \E n \in NETWORK_CONFIGS : ChainIdOf(n) = chainId
    THEN CHOOSE n \in NETWORK_CONFIGS : ChainIdOf(n) = chainId
    ELSE Undefined

\* process.env as the instance serving a request may see it: the master key
\* is set or not, and so is the NEXT_PUBLIC_USDC_ADDRESS_* variable of the
\* network the request settles on
ProcessEnv == [SYSTEM_MASTER_KEY : BOOLEAN, USDC_ADDRESS : BOOLEAN]

\* TRUE when getUSDCContract(network) returns instead of throwing: the
\* network has an entry, and the entry has an address
getUSDCContractOk(network, env) ==
    /\ network \in USDC_CONTRACTS
    /\ (network # "avalanche-fuji" => env.USDC_ADDRESS)

\* ------------------------------------------------------------------------
\* Requests
\* ------------------------------------------------------------------------
IdleProc ==
    [kind |-> "idle", pc |-> "idle",
     facilitatorId |-> Undefined, network |-> Undefined, chainId |-> 0, n |-> 0,
     facilitator |-> NoRec, call |-> "handler", rec |-> NoRec,
     usdcAddress |-> Undefined, contractAddress |-> Undefined,
     verifyingContract |-> Undefined, domainVerifyingContract |-> Undefined,
     networkName |-> Undefined, privateKey |-> FALSE, finalUsdcAddress |-> Undefined,
     i |-> 0, tx |-> 0, txHashes |-> <<>>, newStatus |-> Undefined,
     recorded |-> 0, caught |-> Undefined, resp |-> NoResp,
     balance |-> NoBalance, migrated |-> 0, stored |-> 0,
     chainIdParam |-> Undefined, networkFilter |-> Undefined, ids |-> {},
     facilitators |-> <<>>, publicInfo |-> NoRec, result |-> NoRec,
     userAddress |-> Undefined,
     name |-> Undefined, password |-> Undefined, paymentRecipient |-> Undefined,
     createdBy |-> Undefined, registrationTxHash |-> Undefined,
     userFacilitators |-> <<>>, verification |-> Undefined,
     amountUSDC |-> Undefined, envAddress |-> Undefined, networkConfig |-> NoRec, authorization |-> NoRec,
     typedData |-> NoRec, signedAuth |-> NoRec, json |-> NoRec, payload |-> NoRec]

\* the response of the catch block of a route handler
CatchResponse(kind, cause) ==
    CASE kind = "single" -> [status |-> 500, error |-> "Settlement failed", message |-> cause]
      [] kind = "batch" -> [status |-> 500, error |-> "Batch settlement failed", message |-> cause]
      [] kind = "list" -> [status |-> 500, error |-> "Failed to list facilitators"]
      [] kind = "balance" -> [status |-> 500, error |-> "Failed to check balance"]
      [] kind = "delete" -> [status |-> 500, error |-> "Failed to delete facilitator"]
      [] kind = "create" ->
           [status |-> 500, error |-> "Failed to create facilitator from existing account"]
      [] kind = "random" ->
           [status |-> 500, success |-> FALSE, error |-> "Failed to select facilitator"]
      [] kind = "client" -> [status |-> 0, error |-> cause]
      [] OTHER -> [status |-> 500, error |-> "Failed to check and activate facilitator"]

\* an exception reaches the catch block of the handler, or the catch block
\* of a listing callback, which returns the public info it was given
Throw(p, cause) ==
    IF p.kind = "item"
    THEN [p EXCEPT !.pc = "done", !.caught = cause, !.result = p.publicInfo]
    ELSE [p EXCEPT !.pc = "done", !.caught = cause, !.resp = CatchResponse(p.kind, cause)]

\* the handler returns a response
Respond(p, r) == [p EXCEPT !.pc = "done", !.resp = r]

\* ------------------------------------------------------------------------
\* Facilitator storage (lib/networks.ts)
\* ------------------------------------------------------------------------
\* NeedsMigration that holds of every record
NeedsMigrationOfAny(data) == TRUE

\* !facilitator.network || !facilitator.chainId
NeedsMigration(data) == data.network = Undefined \/ data.chainId = 0

\* Migrated that sets the network and leaves the chain id
MigratedNetworkOnly(data) == [data EXCEPT !.network = DEFAULT_NETWORK]

\* the record getFacilitator returns for a stored record without network or
\* chain id
Migrated(data) == [data EXCEPT !.network = DEFAULT_NETWORK, !.chainId = DEFAULT_CHAIN_ID]

\* recordPayment after its getFacilitator returned: throws on null, else
\* increments the counter, stamps the time and calls storeFacilitator
RecordPaymentBody(p, fac) ==
    IF fac = NoRec
    THEN Throw(p, "Facilitator not found")
    ELSE [p EXCEPT !.rec = [fac EXCEPT !.totalPayments = fac.totalPayments + 1,
                                       !.lastUsed = now],
                   !.pc = "sf_set"]

\* updateFacilitatorStatus after its getFacilitator returned: throws on
\* null, else sets the status and calls storeFacilitator
UpdateStatusBody(p, fac) ==
    IF fac = NoRec
    THEN Throw(p, "Facilitator not found")
    ELSE [p EXCEPT !.rec = [fac EXCEPT !.status = p.newStatus], !.pc = "sf_set"]

\* the 400 of create-from-existing for a creator without facilitators
NoAccount ==
    [status |-> 400, error |-> "No existing facilitator account found"]

\* getFacilitatorsByCreator at index p.i of its loop: call getFacilitator
\* for the next listed facilitator, or return; the handler then answers 400
\* if the creator has none, else calls getFacilitator for the first
ByCreatorNext(p) ==
    IF p.i <= Len(p.facilitators)
    THEN [p EXCEPT !.call = "getFacilitatorsByCreator",
                   !.facilitatorId = p.facilitators[p.i].id, !.pc = "gf_get"]
    ELSE IF p.userFacilitators = <<>>
    THEN Respond([p EXCEPT !.call = "handler"], NoAccount)
    ELSE [p EXCEPT !.call = "handler",
                   !.facilitatorId = p.userFacilitators[1].id, !.pc = "gf_get"]

\* getFacilitatorsByCreator after its getFacilitator returned: keep the
\* public info if the record is there and was created by the address
ByCreatorBody(p, fac) ==
    ByCreatorNext(
        [p EXCEPT !.i = p.i + 1,
                  !.userFacilitators =
                      IF fac # NoRec /\ toLowerCase(fac.createdBy) = toLowerCase(p.createdBy)
                      THEN Append(p.userFacilitators, p.facilitators[p.i])
                      ELSE p.userFacilitators])

\* getFacilitator returns fac to its caller
GfReturn(p, fac) ==
    CASE p.call = "recordPayment" -> RecordPaymentBody(p, fac)
      [] p.call = "updateFacilitatorStatus" -> UpdateStatusBody(p, fac)
      [] p.call = "getFacilitatorsByCreator" -> ByCreatorBody(p, fac)
      [] OTHER ->
           [p EXCEPT !.facilitator = fac,
                     !.pc = CASE p.kind = "single" -> "s_resolve"
                              [] p.kind = "batch" -> "b_check"
                              [] p.kind = "item" -> "i_balance"
                              [] p.kind = "delete" -> "d_check"
                              [] p.kind = "create" -> "cr_verify"
                              [] p.kind = "random" -> "r_respond"
                              [] OTHER -> "c_balance"]

\* getFacilitator: redis.get(key); null, a complete record, or a record to
\* migrate
GfGet(t) ==
    /\ proc[t].pc = "gf_get"
    /\ LET p == proc[t]
           data == store[p.facilitatorId]
       IN  IF data # NoRec /\ NeedsMigration(data)
           THEN proc' = [proc EXCEPT ![t] = [p EXCEPT !.rec = Migrated(data), !.pc = "gf_set"]]
           ELSE proc' = [proc EXCEPT ![t] = GfReturn(p, data)]
    /\ UNCHANGED <<store, activeList, chain, sink, sinkFailures, now>>

\* getFacilitator: redis.set(key, migrated record), then return it
GfSet(t) ==
    /\ proc[t].pc = "gf_set"
    /\ LET p == proc[t]
       IN  /\ store' = [store EXCEPT ![p.facilitatorId] = p.rec]
           /\ proc' = [proc EXCEPT ![t] =
                 GfReturn([p EXCEPT !.migrated = p.migrated + 1], p.rec)]
    /\ UNCHANGED <<activeList, chain, sink, sinkFailures, now>>

\* storeFacilitator: redis.set(key, record)
SfSet(t) ==
    /\ proc[t].pc = "sf_set"
    /\ LET p == proc[t]
       IN  /\ store' = [store EXCEPT ![p.rec.id] = p.rec]
           /\ proc' = [proc EXCEPT ![t] =
                 [p EXCEPT !.pc = "sf_sadd", !.stored = p.stored + 1,
                           !.recorded = IF p.call = "recordPayment"
                                        THEN p.recorded + 1 ELSE p.recorded]]
    /\ UNCHANGED <<activeList, chain, sink, sinkFailures, now>>

\* the success response of settle-batch
BatchSuccess(p) ==
    [status |-> 200, success |-> TRUE, txHashes |-> p.txHashes,
     txHash |-> p.txHashes[1], transferCount |-> Len(p.txHashes),
     network |-> p.network]

\* balanceInToken.toFixed(4): the balance rounded to a multiple of 0.0001
\* token, in units of 0.0001 token
toFixed4(balance) == (balance + 50) \div 100

\* the success response of check-and-activate
CheckSuccess(p) ==
    [status |-> 200, success |-> TRUE, facilitatorStatus |-> p.newStatus,
     balance |-> toFixed4(p.balance),
     minimumRequired |-> DEACTIVATION_THRESHOLD,
     isFunded |-> p.balance > DEACTIVATION_THRESHOLD,
     recommendedMinimum |-> RECOMMENDED_BALANCES(p.networkName)]

\* storeFacilitator returned, and with it recordPayment or
\* updateFacilitatorStatus: the handler goes on
SfReturn(p) ==
    LET q == [p EXCEPT !.call = "handler", !.rec = NoRec]
    IN  CASE p.kind = "single" -> [q EXCEPT !.pc = "s_log"]
          [] p.kind = "batch" -> Respond(q, BatchSuccess(q))
          [] p.kind = "item" ->
               [q EXCEPT !.pc = "done",
                         !.result = [p.publicInfo EXCEPT !.status = p.newStatus]]
          [] p.kind = "create" -> [p EXCEPT !.call = "handler", !.pc = "cr_log"]
          [] OTHER -> IF p.newStatus = "active"
                      THEN [q EXCEPT !.pc = "c_log"]
                      ELSE Respond(q, CheckSuccess(q))

\* storeFacilitator: redis.sadd('facilitators:active', id), then return
SfSadd(t) ==
    /\ proc[t].pc = "sf_sadd"
    /\ LET p == proc[t]
       IN  /\ activeList' = activeList \cup {p.rec.id}
           /\ proc' = [proc EXCEPT ![t] = SfReturn(p)]
    /\ UNCHANGED <<store, chain, sink, sinkFailures, now>>

\* ------------------------------------------------------------------------
\* The chain and the audit log (external collaborators)
\* ------------------------------------------------------------------------
\* what a call of contract.transferWithAuthorization may do: return a
\* pending transaction, or throw because the call reverts in gas estimation
\* or because the RPC endpoint cannot be reached
SubmitOutcomes == {"submitted", "execution reverted", "network error"}

\* the transaction record the chain keeps for a submitted call
NewTx(t, leg, network, contract) ==
    [task |-> t, leg |-> leg, network |-> network, contract |-> contract,
     state |-> "pending"]

\* the chain includes a pending transaction in a block: it succeeds or
\* reverts.  Nothing obliges the chain to ever do so.
Mine(h) ==
    /\ h \in 1..Len(chain)
    /\ chain[h].state = "pending"
    /\ \E result \in {"confirmed", "reverted"} :
         chain' = [chain EXCEPT ![h].state = result]
    /\ UNCHANGED <<store, activeList, sink, sinkFailures, now, proc>>

\* time passes
Tick ==
    /\ now < MaxClock
    /\ now' = now + 1
    /\ UNCHANGED <<store, activeList, chain, sink, sinkFailures, proc>>

\* what a call of logEvent may do: append the event to the audit sink, or
\* fail (its promise rejects)
logEvent == {"appended", "failed"}

\* what decryptPrivateKey may do: return the signing key, or throw
decryptPrivateKey == {"key", "throws"}

\* the audit event a handler passes to logEvent
AuditEvent(t, eventType, txHash) == [task |-> t, eventType |-> eventType, txHash |-> txHash]

\* ------------------------------------------------------------------------
\* POST /api/x402/settle-custom
\* ------------------------------------------------------------------------
\* ResolveNetwork that looks at the chain id of the request before its
\* network name
ResolveNetworkChainIdFirst(requestNetwork, requestChainId, facilitator) ==
    LET bound == IF facilitator.network # Undefined THEN facilitator.network
                 ELSE DEFAULT_NETWORK
    IN  IF getNetworkByChainId(requestChainId) # Undefined
        THEN getNetworkByChainId(requestChainId)
        ELSE IF requestNetwork # Undefined /\ isNetworkSupported(requestNetwork)
             THEN requestNetwork
             ELSE bound

\* the network a single settlement submits on
ResolveNetwork(requestNetwork, requestChainId, facilitator) ==
    LET bound == IF facilitator.network # Undefined THEN facilitator.network
                 ELSE DEFAULT_NETWORK
    IN  IF requestNetwork # Undefined /\ isNetworkSupported(requestNetwork)
        THEN requestNetwork
        ELSE IF requestChainId # 0
             THEN IF getNetworkByChainId(requestChainId) # Undefined
                  THEN getNetworkByChainId(requestChainId)
                  ELSE bound
             ELSE bound

\* the request arrives with this body: it is validated and getFacilitator
\* is called
SingleRequest(t, id, net, cid, bodyUsdcAddress, bodyContractAddress, bodyVerifyingContract, domainVerifyingContract) ==
    /\ proc[t].pc = "idle"
    /\ LET p == [IdleProc EXCEPT !.kind = "single", !.facilitatorId = id,
                                 !.network = net, !.chainId = cid, !.n = 1,
                                 !.usdcAddress = bodyUsdcAddress,
                                 !.contractAddress = bodyContractAddress,
                                 !.verifyingContract = bodyVerifyingContract,
                                 !.domainVerifyingContract = domainVerifyingContract]
       IN  proc' = [proc EXCEPT ![t] =
               IF id = Undefined
               THEN Respond(p, [status |-> 400, error |-> "Missing facilitatorId or paymentPayload"])
               ELSE [p EXCEPT !.pc = "gf_get"]]
    /\ UNCHANGED <<store, activeList, chain, sink, sinkFailures, now>>

\* a request without address fields
SingleStart(t) ==
    \E id \in Ids \cup {Undefined}, net \in SingleNetworks, cid \in SingleChainIds :
        SingleRequest(t, id, net, cid, Undefined, Undefined, Undefined, Undefined)

\* a request with any body
SingleStartAny(t) ==
    \E id \in Ids \cup {Undefined}, net \in AnyNetworks, cid \in AnyChainIds,
       a1 \in BodyUsdcAddresses, a2 \in BodyContractAddresses,
       a3 \in BodyVerifyingContracts, a4 \in DomainVerifyingContracts :
        SingleRequest(t, id, net, cid, a1, a2, a3, a4)

\* typeof addr === 'string' && addr !== '0x' && addr.length >= 42
IsCandidateAddress(addr) == addr # Undefined /\ addr # "0x" /\ Len(addr) >= 42

\* candidateAddresses that keeps every field the request gives, usable as an
\* address or not
candidateAddressesUnfiltered(p, registryAddress) ==
    SelectSeq(<<p.usdcAddress, p.contractAddress, p.verifyingContract,
                p.domainVerifyingContract, registryAddress>>,
              LAMBDA addr : addr # Undefined)

\* the address fields of the request and the registry address, filtered
candidateAddresses(p, registryAddress) ==
    SelectSeq(<<p.usdcAddress, p.contractAddress, p.verifyingContract,
                p.domainVerifyingContract, registryAddress>>, IsCandidateAddress)

\* candidateAddresses[0] || usdcContractConfig.address
finalUsdcAddress(p, registryAddress) ==
    IF candidateAddresses(p, registryAddress) # <<>>
    THEN Head(candidateAddresses(p, registryAddress))
    ELSE registryAddress

\* SingleResolve that goes on to submit when the key cannot be decrypted
SingleResolveUndecrypted(t) ==
    /\ proc[t].pc = "s_resolve"
    /\ \E env \in ProcessEnv, decrypted \in decryptPrivateKey :
         LET p == proc[t]
             networkName == ResolveNetwork(p.network, p.chainId, p.facilitator)
             q == [p EXCEPT !.networkName = networkName]
         IN  proc' = [proc EXCEPT ![t] =
               IF p.facilitator = NoRec
               THEN Respond(p, [status |-> 404, error |-> "Facilitator not found"])
               ELSE IF ~isNetworkSupported(networkName)
               THEN Throw(q, "Unsupported network")
               ELSE IF ~getUSDCContractOk(networkName, env)
               THEN Throw(q, "USDC contract not configured")
               ELSE IF ~env.SYSTEM_MASTER_KEY
               THEN Respond(q, [status |-> 500, error |-> "System configuration error"])
               ELSE [q EXCEPT !.privateKey = (decrypted = "key"),
                              !.finalUsdcAddress =
                                  finalUsdcAddress(q, USDC_CONTRACT_ADDRESS(networkName)),
                              !.pc = "s_submit"]]
    /\ UNCHANGED <<store, activeList, chain, sink, sinkFailures, now>>

\* getFacilitator returned: not found, or resolve the network and the token
\* contract and decrypt the signing key
SingleResolve(t) ==
    /\ proc[t].pc = "s_resolve"
    /\ \E env \in ProcessEnv, decrypted \in decryptPrivateKey :
         LET p == proc[t]
             networkName == ResolveNetwork(p.network, p.chainId, p.facilitator)
             q == [p EXCEPT !.networkName = networkName]
         IN  proc' = [proc EXCEPT ![t] =
               IF p.facilitator = NoRec
               THEN Respond(p, [status |-> 404, error |-> "Facilitator not found"])
               ELSE IF ~isNetworkSupported(networkName)
               THEN Throw(q, "Unsupported network")
               ELSE IF ~getUSDCContractOk(networkName, env)
               THEN Throw(q, "USDC contract not configured")
               ELSE IF ~env.SYSTEM_MASTER_KEY
               THEN Respond(q, [status |-> 500, error |-> "System configuration error"])
               ELSE IF decrypted = "throws"
               THEN Throw(q, "Decryption failed")
               ELSE [q EXCEPT !.privateKey = TRUE,
                              !.finalUsdcAddress =
                                  finalUsdcAddress(q, USDC_CONTRACT_ADDRESS(networkName)),
                              !.pc = "s_submit"]]
    /\ UNCHANGED <<store, activeList, chain, sink, sinkFailures, now>>

\* await contract.transferWithAuthorization(...)
SingleSubmit(t) ==
    /\ proc[t].pc = "s_submit"
    /\ LET p == proc[t]
       IN  \E outcome \in SubmitOutcomes :
             IF outcome = "submitted"
             THEN /\ chain' = Append(chain, NewTx(t, 1, p.networkName, p.finalUsdcAddress))
                  /\ proc' = [proc EXCEPT ![t] =
                        [p EXCEPT !.tx = Len(chain) + 1, !.pc = "s_wait"]]
             ELSE /\ chain' = chain
                  /\ proc' = [proc EXCEPT ![t] = Throw(p, outcome)]
    /\ UNCHANGED <<store, activeList, sink, sinkFailures, now>>

\* SingleWait that does not tell a reverted receipt from a confirmed one
SingleWaitAnyReceipt(t) ==
    /\ proc[t].pc = "s_wait"
    /\ LET p == proc[t]
       IN  /\ chain[p.tx].state # "pending"
           /\ proc' = [proc EXCEPT ![t] =
                 [p EXCEPT !.call = "recordPayment", !.pc = "gf_get"]]
    /\ UNCHANGED <<store, activeList, chain, sink, sinkFailures, now>>

\* await tx.wait(): returns the receipt of a confirmed transaction, throws
\* for a reverted one; then recordPayment is called
SingleWait(t) ==
    /\ proc[t].pc = "s_wait"
    /\ LET p == proc[t]
       IN  /\ chain[p.tx].state # "pending"
           /\ proc' = [proc EXCEPT ![t] =
                 IF chain[p.tx].state = "confirmed"
                 THEN [p EXCEPT !.call = "recordPayment", !.pc = "gf_get"]
                 ELSE Throw(p, "transaction execution reverted")]
    /\ UNCHANGED <<store, activeList, chain, sink, sinkFailures, now>>

\* the success response of settle-custom
SingleSuccess(p) ==
    [status |-> 200, success |-> TRUE, txHash |-> p.tx, network |-> p.networkName]

\* await logEvent({eventType: 'transaction', ...}), then the success response
SingleLog(t) ==
    /\ proc[t].pc = "s_log"
    /\ LET p == proc[t]
           event == AuditEvent(t, "transaction", p.tx)
       IN  \E result \in logEvent :
             IF result = "appended"
             THEN /\ sink' = sink \cup {event}
                  /\ sinkFailures' = sinkFailures
                  /\ proc' = [proc EXCEPT ![t] = Respond(p, SingleSuccess(p))]
             ELSE /\ sink' = sink
                  /\ sinkFailures' = sinkFailures \cup {event}
                  /\ proc' = [proc EXCEPT ![t] = Throw(p, "audit log failed")]
    /\ UNCHANGED <<store, activeList, chain, now>>

\* ------------------------------------------------------------------------
\* POST /api/x402/settle-batch
\* ------------------------------------------------------------------------
\* the request arrives: the body is validated and getFacilitator is called
BatchStart(t) ==
    /\ proc[t].pc = "idle"
    /\ \E id \in Ids \cup {Undefined}, net \in BatchNetworks, n \in 0..MaxLegs :
         LET p == [IdleProc EXCEPT !.kind = "batch", !.facilitatorId = id,
                                   !.network = net, !.n = n]
         IN  proc' = [proc EXCEPT ![t] =
                 IF id = Undefined \/ net = Undefined
                 THEN Respond(p, [status |-> 400, error |-> "Missing required fields"])
                 ELSE IF n = 0
                 THEN Respond(p, [status |-> 400, error |-> "At least one authorization required"])
                 ELSE [p EXCEPT !.pc = "gf_get"]]
    /\ UNCHANGED <<store, activeList, chain, sink, sinkFailures, now>>

\* facilitator.network || 'avalanche-fuji'
NetworkOf(facilitator) ==
    IF facilitator.network # Undefined THEN facilitator.network ELSE DEFAULT_NETWORK

\* the network check with the comparison left out
NetworkMismatchUnchecked(facilitator, network) == FALSE

\* facilitatorNetwork !== network, where facilitatorNetwork is the record's
\* network or the default network
NetworkMismatch(facilitator, network) == NetworkOf(facilitator) # network

\* getFacilitator returned: not found, wrong network, or decrypt the signing
\* key and enter the loop
BatchCheck(t) ==
    /\ proc[t].pc = "b_check"
    /\ \E env \in ProcessEnv, decrypted \in decryptPrivateKey :
         LET p == proc[t]
         IN  proc' = [proc EXCEPT ![t] =
               IF p.facilitator = NoRec
               THEN Respond(p, [status |-> 404, error |-> "Facilitator not found"])
               ELSE IF NetworkMismatch(p.facilitator, p.network)
               THEN Respond(p, [status |-> 400, error |-> "Facilitator is on another network"])
               ELSE IF ~env.SYSTEM_MASTER_KEY
               THEN Respond(p, [status |-> 500, error |-> "System configuration error"])
               ELSE IF decrypted = "throws"
               THEN Throw(p, "Decryption failed")
               ELSE IF ~isNetworkSupported(p.network)
               THEN Throw([p EXCEPT !.privateKey = TRUE], "Unsupported network")
               ELSE [p EXCEPT !.networkName = p.network, !.privateKey = TRUE,
                              !.i = 1, !.pc = "b_submit"]]
    /\ UNCHANGED <<store, activeList, chain, sink, sinkFailures, now>>

\* await contract.transferWithAuthorization(...) for authorizations[i]
BatchSubmit(t) ==
    /\ proc[t].pc = "b_submit"
    /\ LET p == proc[t]
       IN  \E outcome \in SubmitOutcomes :
             IF outcome = "submitted"
             THEN /\ chain' = Append(chain, NewTx(t, p.i, p.networkName, usdcAddress(p.networkName)))
                  /\ proc' = [proc EXCEPT ![t] =
                        [p EXCEPT !.tx = Len(chain) + 1, !.pc = "b_wait"]]
             ELSE /\ chain' = chain
                  /\ proc' = [proc EXCEPT ![t] = Throw(p, outcome)]
    /\ UNCHANGED <<store, activeList, sink, sinkFailures, now>>

\* the end of one loop iteration: the next authorization, or recordPayment
\* after the last one
BatchNext(p) ==
    IF p.i < p.n
    THEN [p EXCEPT !.i = p.i + 1, !.pc = "b_submit"]
    ELSE [p EXCEPT !.i = p.i + 1, !.call = "recordPayment", !.pc = "gf_get"]

\* BatchWait with the await of tx.wait() forgotten: the loop goes on while
\* the transaction is still pending
BatchWaitUnawaited(t) ==
    /\ proc[t].pc = "b_wait"
    /\ LET p == proc[t]
       IN  proc' = [proc EXCEPT ![t] =
                 IF chain[p.tx].state # "reverted"
                 THEN [p EXCEPT !.txHashes = Append(p.txHashes, p.tx), !.pc = "b_log"]
                 ELSE Throw(p, "transaction execution reverted")]
    /\ UNCHANGED <<store, activeList, chain, sink, sinkFailures, now>>

\* BatchWait with a per-leg try/catch: a reverted leg is skipped and the
\* loop goes on with the next authorization
BatchWaitContinue(t) ==
    /\ proc[t].pc = "b_wait"
    /\ LET p == proc[t]
       IN  /\ chain[p.tx].state # "pending"
           /\ proc' = [proc EXCEPT ![t] =
                 IF chain[p.tx].state = "confirmed"
                 THEN [p EXCEPT !.txHashes = Append(p.txHashes, p.tx), !.pc = "b_log"]
                 ELSE BatchNext(p)]
    /\ UNCHANGED <<store, activeList, chain, sink, sinkFailures, now>>

\* await tx.wait() for authorizations[i]: the hash of a confirmed
\* transaction is pushed to txHashes, a reverted one throws
BatchWait(t) ==
    /\ proc[t].pc = "b_wait"
    /\ LET p == proc[t]
       IN  /\ chain[p.tx].state # "pending"
           /\ proc' = [proc EXCEPT ![t] =
                 IF chain[p.tx].state = "confirmed"
                 THEN [p EXCEPT !.txHashes = Append(p.txHashes, p.tx), !.pc = "b_log"]
                 ELSE Throw(p, "transaction execution reverted")]
    /\ UNCHANGED <<store, activeList, chain, sink, sinkFailures, now>>

\* await logEvent({eventType: 'transaction', ...}) for authorizations[i]
BatchLog(t) ==
    /\ proc[t].pc = "b_log"
    /\ LET p == proc[t]
           event == AuditEvent(t, "transaction", p.tx)
       IN  \E result \in logEvent :
             IF result = "appended"
             THEN /\ sink' = sink \cup {event}
                  /\ sinkFailures' = sinkFailures
                  /\ proc' = [proc EXCEPT ![t] = BatchNext(p)]
             ELSE /\ sink' = sink
                  /\ sinkFailures' = sinkFailures \cup {event}
                  /\ proc' = [proc EXCEPT ![t] = Throw(p, "audit log failed")]
    /\ UNCHANGED <<store, activeList, chain, now>>

\* ------------------------------------------------------------------------
\* POST /api/facilitator/check-and-activate
\* ------------------------------------------------------------------------
\* the request arrives: the body is validated and getFacilitator is called
CheckStart(t) ==
    /\ proc[t].pc = "idle"
    /\ \E id \in Ids \cup {Undefined} :
         LET p == [IdleProc EXCEPT !.kind = "check", !.facilitatorId = id]
         IN  proc' = [proc EXCEPT ![t] =
                 IF id = Undefined
                 THEN Respond(p, [status |-> 400, error |-> "Missing facilitator ID"])
                 ELSE [p EXCEPT !.pc = "gf_get"]]
    /\ UNCHANGED <<store, activeList, chain, sink, sinkFailures, now>>

\* StatusFor that counts a balance at the threshold as funded
StatusForAtThreshold(balance) ==
    IF balance >= DEACTIVATION_THRESHOLD THEN "active" ELSE "needs_funding"

\* the status derived from a balance
StatusFor(balance) ==
    IF balance > DEACTIVATION_THRESHOLD THEN "active" ELSE "needs_funding"

\* CheckBalance that calls updateFacilitatorStatus whatever the status read
CheckBalanceAlwaysWrites(t) ==
    /\ proc[t].pc = "c_balance"
    /\ LET p == proc[t]
       IN  IF p.facilitator = NoRec
           THEN proc' = [proc EXCEPT ![t] =
                    Respond(p, [status |-> 404, error |-> "Facilitator not found"])]
           ELSE \/ proc' = [proc EXCEPT ![t] = Throw(p, "network error")]
                \/ \E balance \in Balances :
                     LET q == [p EXCEPT !.newStatus = StatusFor(balance),
                                        !.balance = balance,
                                        !.networkName = NetworkOf(p.facilitator)]
                     IN  proc' = [proc EXCEPT ![t] =
                           [q EXCEPT !.call = "updateFacilitatorStatus", !.pc = "gf_get"]]
    /\ UNCHANGED <<store, activeList, chain, sink, sinkFailures, now>>

\* getFacilitator returned: not found, or await publicClient.getBalance(...)
\* and compare the derived status with the one read
CheckBalance(t) ==
    /\ proc[t].pc = "c_balance"
    /\ LET p == proc[t]
       IN  IF p.facilitator = NoRec
           THEN proc' = [proc EXCEPT ![t] =
                    Respond(p, [status |-> 404, error |-> "Facilitator not found"])]
           ELSE \/ proc' = [proc EXCEPT ![t] = Throw(p, "network error")]
                \/ \E balance \in Balances :
                     LET q == [p EXCEPT !.newStatus = StatusFor(balance),
                                        !.balance = balance,
                                        !.networkName = NetworkOf(p.facilitator)]
                     IN  proc' = [proc EXCEPT ![t] =
                           IF p.facilitator.status # q.newStatus
                           THEN [q EXCEPT !.call = "updateFacilitatorStatus", !.pc = "gf_get"]
                           ELSE Respond(q, CheckSuccess(q))]
    /\ UNCHANGED <<store, activeList, chain, sink, sinkFailures, now>>

\* await logEvent({eventType: 'facilitator_activated', ...})
CheckLog(t) ==
    /\ proc[t].pc = "c_log"
    /\ LET p == proc[t]
           event == AuditEvent(t, "facilitator_activated", 0)
       IN  \E result \in logEvent :
             IF result = "appended"
             THEN /\ sink' = sink \cup {event}
                  /\ sinkFailures' = sinkFailures
                  /\ proc' = [proc EXCEPT ![t] = Respond(p, CheckSuccess(p))]
             ELSE /\ sink' = sink
                  /\ sinkFailures' = sinkFailures \cup {event}
                  /\ proc' = [proc EXCEPT ![t] = Throw(p, "audit log failed")]
    /\ UNCHANGED <<store, activeList, chain, now>>

\* ------------------------------------------------------------------------
\* GET /api/facilitator/list
\* ------------------------------------------------------------------------
\* parseInt(chainIdParam, 10): the number written by the leading digits of
\* the string, or NaN when it has none
parseInt(str) ==
    CASE str \in {"84532", "84532abc"} -> 84532
      [] str = "1" -> 1
      [] OTHER -> NaN

\* the network filter a listing request resolves from its query parameters,
\* or Undefined
ResolveNetworkFilter(networkParam, chainIdParam) ==
    IF networkParam # Undefined /\ isNetworkSupported(networkParam)
    THEN networkParam
    ELSE IF chainIdParam # Undefined /\ parseInt(chainIdParam) # NaN
         THEN getNetworkByChainId(parseInt(chainIdParam))
         ELSE Undefined

\* a getActiveFacilitators that returns the stored records whole
WholeRecord(facilitator) ==
    [id |-> facilitator.id, name |-> facilitator.name,
     encryptedPrivateKey |-> facilitator.encryptedPrivateKey,
     systemEncryptedKey |-> facilitator.systemEncryptedKey,
     facilitatorWallet |-> facilitator.facilitatorWallet,
     paymentRecipient |-> facilitator.paymentRecipient,
     createdBy |-> facilitator.createdBy, status |-> facilitator.status,
     totalPayments |-> facilitator.totalPayments, lastUsed |-> facilitator.lastUsed,
     network |-> IF facilitator.network # Undefined THEN facilitator.network
                 ELSE DEFAULT_NETWORK,
     chainId |-> IF facilitator.chainId # 0 THEN facilitator.chainId
                 ELSE DEFAULT_CHAIN_ID]

\* the public fields getActiveFacilitators copies from a stored record
PublicInfo(facilitator) ==
    [id |-> facilitator.id, name |-> facilitator.name,
     facilitatorWallet |-> facilitator.facilitatorWallet,
     paymentRecipient |-> facilitator.paymentRecipient,
     createdBy |-> facilitator.createdBy, status |-> facilitator.status,
     totalPayments |-> facilitator.totalPayments, lastUsed |-> facilitator.lastUsed,
     network |-> IF facilitator.network # Undefined THEN facilitator.network
                 ELSE DEFAULT_NETWORK,
     chainId |-> IF facilitator.chainId # 0 THEN facilitator.chainId
                 ELSE DEFAULT_CHAIN_ID]

\* the orders in which facilitators.sort((a, b) => b.lastUsed - a.lastUsed)
\* may leave the records of S: redis returns the ids of a set in any order
\* and the sort keeps the order of records used at the same time
SortedByLastUsed(S) ==
    {f \in [1..Cardinality(S) -> S] :
        /\ \A i, j \in 1..Cardinality(S) : i # j => f[i] # f[j]
        /\ \A i, j \in 1..Cardinality(S) : i < j => f[i].lastUsed >= f[j].lastUsed}

\* the records getActiveFacilitators keeps of the values mget returned
ListedRecords(ids, networkFilter) ==
    {PublicInfo(store[id]) : id \in
        {i \in ids : /\ store[i] # NoRec
                     /\ (networkFilter # Undefined =>
                            PublicInfo(store[i]).network = networkFilter)}}

\* the callback that Promise.all runs for the j-th listed facilitator
CallbackOf(j) == IF j = 1 THEN "k1" ELSE "k2"

\* the success response of the listing
ListSuccess(p, filteredFacilitators) ==
    [status |-> 200, success |-> TRUE, facilitators |-> filteredFacilitators,
     count |-> Len(filteredFacilitators), network |-> p.networkFilter]

\* the request arrives: the filter is resolved and getActiveFacilitators
\* is called
ListStart(t) ==
    /\ proc[t].pc = "idle"
    /\ \A k \in Callbacks : proc[k].pc = "idle"
    /\ \E networkParam \in ListNetworkParams, chainIdParam \in ListChainIdParams :
         proc' = [proc EXCEPT ![t] =
             [IdleProc EXCEPT !.kind = "list", !.network = networkParam,
                              !.chainIdParam = chainIdParam,
                              !.networkFilter =
                                  ResolveNetworkFilter(networkParam, chainIdParam),
                              !.pc = "ga_smembers"]]
    /\ UNCHANGED <<store, activeList, chain, sink, sinkFailures, now>>

\* the 404 of the random selection when no listed facilitator is active on
\* the network
NoneAvailable ==
    [status |-> 404, success |-> FALSE, error |-> "No active facilitators available"]

\* getActiveFacilitators: redis.smembers('facilitators:active'); an empty
\* set ends the call with an empty array: an empty listing, no account for
\* the creator, no facilitator to select
GaSmembers(t) ==
    /\ proc[t].pc = "ga_smembers"
    /\ LET p == proc[t]
       IN  proc' = [proc EXCEPT ![t] =
               IF activeList = {}
               THEN CASE p.kind = "create" -> Respond(p, NoAccount)
                      [] p.kind = "random" -> Respond(p, NoneAvailable)
                      [] OTHER -> Respond(p, ListSuccess(p, <<>>))
               ELSE [p EXCEPT !.ids = activeList, !.pc = "ga_mget"]]
    /\ UNCHANGED <<store, activeList, chain, sink, sinkFailures, now>>

\* the listed facilitators the random selection chooses from
networkFacilitators(allFacilitators, network) ==
    SelectSeq(allFacilitators, LAMBDA f : f.network = network /\ f.status = "active")

\* getActiveFacilitators: redis.mget(keys), filter, sort and return.  A
\* listing starts one callback for each facilitator, each calling
\* getFacilitator, and awaits them all; getFacilitatorsByCreator starts its
\* loop; the random selection picks a facilitator and calls getFacilitator
GaMget(t) ==
    /\ proc[t].pc = "ga_mget"
    /\ LET p == proc[t]
       IN  \E facilitators \in SortedByLastUsed(ListedRecords(p.ids, p.networkFilter)) :
             CASE p.kind = "create" ->
                    proc' = [proc EXCEPT ![t] =
                        ByCreatorNext([p EXCEPT !.facilitators = facilitators, !.i = 1])]
               [] p.kind = "random" ->
                    LET candidates == networkFacilitators(facilitators, p.networkName)
                    IN  IF candidates = <<>>
                        THEN proc' = [proc EXCEPT ![t] = Respond(p, NoneAvailable)]
                        ELSE \E randomIndex \in 1..Len(candidates) :
                               proc' = [proc EXCEPT ![t] =
                                   [p EXCEPT !.facilitators = facilitators,
                                             !.publicInfo = candidates[randomIndex],
                                             !.facilitatorId = candidates[randomIndex].id,
                                             !.pc = "gf_get"]]
               [] OTHER ->
                    proc' = [u \in Procs |->
                        IF u = t
                        THEN [p EXCEPT !.facilitators = facilitators, !.pc = "l_await"]
                        ELSE IF \E j \in 1..Len(facilitators) : u = CallbackOf(j)
                        THEN LET j == CHOOSE j \in 1..Len(facilitators) : u = CallbackOf(j)
                             IN  [IdleProc EXCEPT !.kind = "item",
                                                  !.facilitatorId = facilitators[j].id,
                                                  !.publicInfo = facilitators[j],
                                                  !.pc = "gf_get"]
                        ELSE proc[u]]
    /\ UNCHANGED <<store, activeList, chain, sink, sinkFailures, now>>

\* a callback after its getFacilitator returned: no record, or await
\* publicClient.getBalance(...) and compare the derived status with the one
\* read
ItemBalance(k) ==
    /\ proc[k].pc = "i_balance"
    /\ LET p == proc[k]
       IN  IF p.facilitator = NoRec
           THEN proc' = [proc EXCEPT ![k] =
                    [p EXCEPT !.pc = "done", !.result = p.publicInfo]]
           ELSE IF ~isNetworkSupported(NetworkOf(p.facilitator))
           THEN proc' = [proc EXCEPT ![k] = Throw(p, "Unsupported network")]
           ELSE \/ proc' = [proc EXCEPT ![k] = Throw(p, "network error")]
                \/ \E balance \in Balances :
                     LET q == [p EXCEPT !.newStatus = StatusFor(balance),
                                        !.balance = balance,
                                        !.networkName = NetworkOf(p.facilitator)]
                     IN  proc' = [proc EXCEPT ![k] =
                           IF p.facilitator.status # q.newStatus
                           THEN [q EXCEPT !.call = "updateFacilitatorStatus", !.pc = "gf_get"]
                           ELSE [q EXCEPT !.pc = "done",
                                          !.result = [p.publicInfo EXCEPT
                                                         !.status = q.newStatus]]]
    /\ UNCHANGED <<store, activeList, chain, sink, sinkFailures, now>>

\* the filter the handler applies to the results of the callbacks
MatchesFilter(f, networkFilter) ==
    \/ f.network = networkFilter
    \/ (f.chainId # 0 /\ ChainIdOf(networkFilter) = f.chainId)

\* a listing whose Promise.all rejects when a callback caught an exception
ListFinishRejects(t) ==
    /\ proc[t].pc = "l_await"
    /\ LET p == proc[t]
           facilitatorsWithUpdatedStatus ==
               [j \in 1..Len(p.facilitators) |-> proc[CallbackOf(j)].result]
       IN  /\ \A j \in 1..Len(p.facilitators) : proc[CallbackOf(j)].pc = "done"
           /\ proc' = [proc EXCEPT ![t] =
                 IF \E j \in 1..Len(p.facilitators) : proc[CallbackOf(j)].caught # Undefined
                 THEN Throw(p, "balance check failed")
                 ELSE
                 Respond(p, ListSuccess(p,
                     IF p.networkFilter # Undefined
                     THEN SelectSeq(facilitatorsWithUpdatedStatus,
                                    LAMBDA f : MatchesFilter(f, p.networkFilter))
                     ELSE facilitatorsWithUpdatedStatus))]
    /\ UNCHANGED <<store, activeList, chain, sink, sinkFailures, now>>

\* Promise.all resolved: filter the results again and answer
ListFinish(t) ==
    /\ proc[t].pc = "l_await"
    /\ LET p == proc[t]
           facilitatorsWithUpdatedStatus ==
               [j \in 1..Len(p.facilitators) |-> proc[CallbackOf(j)].result]
       IN  /\ \A j \in 1..Len(p.facilitators) : proc[CallbackOf(j)].pc = "done"
           /\ proc' = [proc EXCEPT ![t] =
                 Respond(p, ListSuccess(p,
                     IF p.networkFilter # Undefined
                     THEN SelectSeq(facilitatorsWithUpdatedStatus,
                                    LAMBDA f : MatchesFilter(f, p.networkFilter))
                     ELSE facilitatorsWithUpdatedStatus))]
    /\ UNCHANGED <<store, activeList, chain, sink, sinkFailures, now>>

\* ------------------------------------------------------------------------
\* GET /api/facilitator/balance
\* ------------------------------------------------------------------------
\* BalanceSuccess that counts a wallet as funded when it holds more than the
\* recommended balance of its network
BalanceSuccessRecommended(p) ==
    [status |-> 200, success |-> TRUE, network |-> p.networkName,
     balanceWei |-> p.balance,
     isFunded |-> p.balance > RECOMMENDED_BALANCES(p.networkName),
     minimumRequired |-> DEACTIVATION_THRESHOLD,
     recommendedMinimum |-> RECOMMENDED_BALANCES(p.networkName)]

\* the success response of the balance route
BalanceSuccess(p) ==
    [status |-> 200, success |-> TRUE, network |-> p.networkName,
     balanceWei |-> p.balance,
     isFunded |-> p.balance > DEACTIVATION_THRESHOLD,
     minimumRequired |-> DEACTIVATION_THRESHOLD,
     recommendedMinimum |-> RECOMMENDED_BALANCES(p.networkName)]

\* the request arrives: the address is validated, the network resolved and
\* publicClient.getBalance(...) called
BalanceStart(t) ==
    /\ proc[t].pc = "idle"
    /\ \E address \in {"missing", "invalid", "valid"}, networkParam \in BalanceNetworkParams :
         LET p == [IdleProc EXCEPT !.kind = "balance", !.network = networkParam,
                       !.networkName = IF networkParam # Undefined THEN networkParam
                                       ELSE DEFAULT_NETWORK]
         IN  proc' = [proc EXCEPT ![t] =
                 CASE address = "missing" ->
                        Respond(p, [status |-> 400, error |-> "Missing address parameter"])
                   [] address = "invalid" ->
                        Respond(p, [status |-> 400, error |-> "Invalid address format"])
                   [] ~isNetworkSupported(p.networkName) ->
                        Throw(p, "Unsupported network")
                   [] OTHER -> [p EXCEPT !.pc = "bal_balance"]]
    /\ UNCHANGED <<store, activeList, chain, sink, sinkFailures, now>>

\* getBalance returned or threw
BalanceRead(t) ==
    /\ proc[t].pc = "bal_balance"
    /\ LET p == proc[t]
       IN  \/ proc' = [proc EXCEPT ![t] = Throw(p, "network error")]
           \/ \E balance \in Balances :
                LET q == [p EXCEPT !.balance = balance]
                IN  proc' = [proc EXCEPT ![t] = Respond(q, BalanceSuccess(q))]
    /\ UNCHANGED <<store, activeList, chain, sink, sinkFailures, now>>

\* ------------------------------------------------------------------------
\* POST /api/facilitator/delete
\* ------------------------------------------------------------------------
\* the request arrives: the body is validated and getFacilitator is called
DeleteStart(t) ==
    /\ proc[t].pc = "idle"
    /\ \E id \in Ids \cup {Undefined}, userAddress \in UserAddresses :
         LET p == [IdleProc EXCEPT !.kind = "delete", !.facilitatorId = id,
                                   !.userAddress = userAddress]
         IN  proc' = [proc EXCEPT ![t] =
                 IF id = Undefined \/ userAddress = Undefined
                 THEN Respond(p, [status |-> 400, error |-> "Missing required fields"])
                 ELSE [p EXCEPT !.pc = "gf_get"]]
    /\ UNCHANGED <<store, activeList, chain, sink, sinkFailures, now>>

\* DeleteCheck that lets every caller delete
DeleteCheckAnyCaller(t) ==
    /\ proc[t].pc = "d_check"
    /\ LET p == proc[t]
       IN  proc' = [proc EXCEPT ![t] =
               IF p.facilitator = NoRec
               THEN Respond(p, [status |-> 404, error |-> "Facilitator not found"])
               ELSE [p EXCEPT !.pc = "d_del"]]
    /\ UNCHANGED <<store, activeList, chain, sink, sinkFailures, now>>

\* getFacilitator returned: not found, not the creator, or await
\* redis.del(key)
DeleteCheck(t) ==
    /\ proc[t].pc = "d_check"
    /\ LET p == proc[t]
       IN  proc' = [proc EXCEPT ![t] =
               IF p.facilitator = NoRec
               THEN Respond(p, [status |-> 404, error |-> "Facilitator not found"])
               ELSE IF toLowerCase(p.facilitator.createdBy) # toLowerCase(p.userAddress)
               THEN Respond(p, [status |-> 403,
                                error |-> "Only the creator can delete this facilitator"])
               ELSE [p EXCEPT !.pc = "d_del"]]
    /\ UNCHANGED <<store, activeList, chain, sink, sinkFailures, now>>

\* redis.del(key) returned: the key is gone, the active list is as it was
DeleteDel(t) ==
    /\ proc[t].pc = "d_del"
    /\ store' = [store EXCEPT ![proc[t].facilitatorId] = NoRec]
    /\ proc' = [proc EXCEPT ![t] =
          Respond(proc[t], [status |-> 200, success |-> TRUE,
                            message |-> "Facilitator deleted successfully"])]
    /\ UNCHANGED <<activeList, chain, sink, sinkFailures, now>>

\* ------------------------------------------------------------------------
\* GET /api/facilitator/random
\* ------------------------------------------------------------------------
\* the request arrives: getActiveFacilitators is called without a filter
RandomStart(t) ==
    /\ proc[t].pc = "idle"
    /\ \E networkParam \in RandomNetworkParams :
         proc' = [proc EXCEPT ![t] =
             [IdleProc EXCEPT !.kind = "random", !.network = networkParam,
                              !.networkName = IF networkParam # Undefined
                                              THEN networkParam ELSE DEFAULT_NETWORK,
                              !.pc = "ga_smembers"]]
    /\ UNCHANGED <<store, activeList, chain, sink, sinkFailures, now>>

\* the success response of the random selection
RandomSuccess(facilitator) ==
    [status |-> 200, success |-> TRUE,
     facilitator |-> [id |-> facilitator.id, name |-> facilitator.name,
                      facilitatorWallet |-> facilitator.facilitatorWallet,
                      paymentRecipient |-> facilitator.paymentRecipient,
                      network |-> NetworkOf(facilitator),
                      status |-> facilitator.status]]

\* getFacilitator returned for the selected facilitator
RandomRespond(t) ==
    /\ proc[t].pc = "r_respond"
    /\ LET p == proc[t]
       IN  proc' = [proc EXCEPT ![t] =
               IF p.facilitator = NoRec
               THEN Respond(p, [status |-> 404, success |-> FALSE,
                                error |-> "Selected facilitator not found"])
               ELSE Respond(p, RandomSuccess(p.facilitator))]
    /\ UNCHANGED <<store, activeList, chain, sink, sinkFailures, now>>

\* ------------------------------------------------------------------------
\* POST /api/facilitator/create-from-existing
\* ------------------------------------------------------------------------
\* what verifyRegistrationPayment may do: find the payment valid or
\* invalid, or throw
verifyRegistrationPayment == {"valid", "invalid", "throws"}

\* generateFacilitatorId(): an id no facilitator has had
generateFacilitatorId ==
    CHOOSE id \in Ids : id \notin activeList /\ store[id] = NoRec

\* the request arrives: the body is validated and getFacilitatorsByCreator
\* is called, which calls getActiveFacilitators
CreateStart(t) ==
    /\ proc[t].pc = "idle"
    /\ \E name \in CreateNames, password \in CreatePasswords,
          paymentRecipient \in CreateRecipients, createdBy \in CreateCreators,
          registrationTxHash \in CreateTxHashes, network \in CreateNetworks,
          chainId \in CreateChainIds :
         LET p == [IdleProc EXCEPT !.kind = "create", !.name = name,
                       !.password = password, !.paymentRecipient = paymentRecipient,
                       !.createdBy = createdBy,
                       !.registrationTxHash = registrationTxHash,
                       !.network = network, !.chainId = chainId]
         IN  proc' = [proc EXCEPT ![t] =
               IF Undefined \in {name, password, paymentRecipient, createdBy,
                                 registrationTxHash, network} \/ chainId = 0
               THEN Respond(p, [status |-> 400, error |-> "Missing required fields"])
               ELSE IF ~isNetworkSupported(network)
               THEN Respond(p, [status |-> 400, error |-> "Unsupported network"])
               ELSE IF Len(name) < 3 \/ Len(name) > 50
               THEN Respond(p, [status |-> 400,
                      error |-> "Facilitator name must be between 3 and 50 characters"])
               ELSE IF ~MatchesAddress(paymentRecipient)
               THEN Respond(p, [status |-> 400, error |-> "Invalid payment recipient address"])
               ELSE IF ~MatchesAddress(createdBy)
               THEN Respond(p, [status |-> 400, error |-> "Invalid creator address"])
               ELSE [p EXCEPT !.pc = "ga_smembers"]]
    /\ UNCHANGED <<store, activeList, chain, sink, sinkFailures, now>>

\* getFacilitator returned the base facilitator: none, or the password is
\* tried on its key, then verifyRegistrationPayment is called
CreateVerify(t) ==
    /\ proc[t].pc = "cr_verify"
    /\ \E decrypted \in decryptPrivateKey :
         LET p == proc[t]
         IN  proc' = [proc EXCEPT ![t] =
               IF p.facilitator = NoRec
               THEN Respond(p, [status |-> 500,
                      error |-> "Failed to load existing facilitator account"])
               ELSE IF decrypted = "throws"
               THEN Respond(p, [status |-> 401,
                      error |-> "Invalid password for existing facilitator account"])
               ELSE [p EXCEPT !.pc = "cr_payment"]]
    /\ UNCHANGED <<store, activeList, chain, sink, sinkFailures, now>>

\* the record create-from-existing builds from the request and the base
\* facilitator
NewFacilitator(p, id) ==
    [id |-> id, name |-> p.name,
     encryptedPrivateKey |-> p.facilitator.encryptedPrivateKey,
     systemEncryptedKey |-> p.facilitator.systemEncryptedKey,
     facilitatorWallet |-> p.facilitator.facilitatorWallet,
     paymentRecipient |-> p.paymentRecipient, createdBy |-> p.createdBy,
     createdAt |-> now, lastUsed |-> now, totalPayments |-> 0,
     status |-> "needs_funding", registrationTxHash |-> p.registrationTxHash,
     network |-> p.network, chainId |-> p.chainId]

\* a create-from-existing that stores the record whatever the verification
\* found
CreatePaymentUnchecked(t) ==
    /\ proc[t].pc = "cr_payment"
    /\ \E verification \in verifyRegistrationPayment :
         LET p == [proc[t] EXCEPT !.verification = verification]
         IN  proc' = [proc EXCEPT ![t] =
               CASE verification = "throws" -> Throw(p, "verification failed")
                 [] OTHER ->
                      [p EXCEPT !.rec = NewFacilitator(p, generateFacilitatorId),
                                !.call = "storeFacilitator", !.pc = "sf_set"]]
    /\ UNCHANGED <<store, activeList, chain, sink, sinkFailures, now>>

\* verifyRegistrationPayment returned: invalid, or the record is built and
\* storeFacilitator called
CreatePayment(t) ==
    /\ proc[t].pc = "cr_payment"
    /\ \E verification \in verifyRegistrationPayment :
         LET p == [proc[t] EXCEPT !.verification = verification]
         IN  proc' = [proc EXCEPT ![t] =
               CASE verification = "throws" -> Throw(p, "verification failed")
                 [] verification = "invalid" ->
                      Respond(p, [status |-> 400, error |-> "Payment verification failed"])
                 [] OTHER ->
                      [p EXCEPT !.rec = NewFacilitator(p, generateFacilitatorId),
                                !.call = "storeFacilitator", !.pc = "sf_set"]]
    /\ UNCHANGED <<store, activeList, chain, sink, sinkFailures, now>>

\* the success response of create-from-existing
CreateSuccess(facilitator) ==
    [status |-> 200, success |-> TRUE,
     facilitator |-> [id |-> facilitator.id,
                      facilitatorWallet |-> facilitator.facilitatorWallet,
                      paymentRecipient |-> facilitator.paymentRecipient,
                      status |-> facilitator.status,
                      createdAt |-> facilitator.createdAt]]

\* await logEvent({eventType: 'facilitator_added', ...}), then answer
CreateLog(t) ==
    /\ proc[t].pc = "cr_log"
    /\ LET p == proc[t]
           event == AuditEvent(t, "facilitator_added", p.registrationTxHash)
       IN  \E result \in logEvent :
             IF result = "appended"
             THEN /\ sink' = sink \cup {event}
                  /\ sinkFailures' = sinkFailures
                  /\ proc' = [proc EXCEPT ![t] = Respond(p, CreateSuccess(p.rec))]
             ELSE /\ sink' = sink
                  /\ sinkFailures' = sinkFailures \cup {event}
                  /\ proc' = [proc EXCEPT ![t] = Throw(p, "audit log failed")]
    /\ UNCHANGED <<store, activeList, chain, now>>

\* ------------------------------------------------------------------------
\* The paying client (lib/erc3009.ts, lib/x402.ts)
\* ------------------------------------------------------------------------
\* the networks a client may name
ClientNetworks == NETWORK_CONFIGS \cup {Undefined, "solana-devnet"}

\* what process.env.NEXT_PUBLIC_DEFAULT_NETWORK may hold
EnvDefaultNetworks == {Undefined, "base-sepolia"}

\* the amounts a client may pay, in USDC
Amounts == {"0.000001", "0.5", "1", "2000"}

\* what Date.now() may return, in milliseconds
ClockMs == {0, 59999, 60000, 1999999, 2000000000}

\* the nonces crypto.getRandomValues may produce
Nonces == {"0x01", "0x02"}

\* the signatures the wallet may return
Signatures == {"0xsigned"}

\* seconds a transfer authorization stays valid
TIMEOUT_SECONDS == 300

\* parseUnits(amountUSDC, 6) on the amounts of the model
parseUnits(amountUSDC) ==
    CASE amountUSDC = "0.000001" -> 1
      [] amountUSDC = "0.5" -> 500000
      [] amountUSDC = "1" -> 1000000
      [] OTHER -> 2000000000

\* getX402Config(network) under an environment, for a supported network
getX402Config(networkName, envAddress) ==
    [VERSION |-> 1, NETWORK |-> networkName,
     USDC_ADDRESS |-> getNetworkConfig(networkName, envAddress).usdcAddress,
     USDC_DECIMALS |-> getNetworkConfig(networkName, envAddress).usdcDecimals,
     TIMEOUT_SECONDS |-> TIMEOUT_SECONDS]

\* the decimal digit d as a character
DigitChar(d) ==
    CASE d = 0 -> "0" [] d = 1 -> "1" [] d = 2 -> "2" [] d = 3 -> "3" [] d = 4 -> "4"
      [] d = 5 -> "5" [] d = 6 -> "6" [] d = 7 -> "7" [] d = 8 -> "8" [] OTHER -> "9"

\* the decimal digits of a natural number, most significant first
RECURSIVE Digits(_)
Digits(n) == IF n < 10 THEN <<DigitChar(n)>> ELSE Append(Digits(n \div 10), DigitChar(n % 10))

\* a toString that drops the sign of a bigint
toStringUnsigned(n) == IF n < 0 THEN Digits(0 - n) ELSE Digits(n)

\* BigInt.prototype.toString(): the characters of the decimal numeral
toString(n) == IF n < 0 THEN <<"-">> \o Digits(0 - n) ELSE Digits(n)

\* a createTransferAuthorization that reads the clock for each bound
createTransferAuthorizationTwoClocks(from, to, amountUSDC, config, dateNow, nonce) ==
    [from |-> from, to |-> to, value |-> parseUnits(amountUSDC),
     validAfter |-> (dateNow \div 1000) - 60,
     validBefore |-> ((dateNow + 1000) \div 1000) + config.TIMEOUT_SECONDS,
     nonce |-> nonce]

\* createTransferAuthorization with the configuration, clock and nonce it
\* reads
createTransferAuthorization(from, to, amountUSDC, config, dateNow, nonce) ==
    [from |-> from, to |-> to, value |-> parseUnits(amountUSDC),
     validAfter |-> (dateNow \div 1000) - 60,
     validBefore |-> (dateNow \div 1000) + config.TIMEOUT_SECONDS,
     nonce |-> nonce]

\* signedAuthorizationToJSON
signedAuthorizationToJSON(signedAuth) ==
    [signature |-> signedAuth.signature,
     authorization |->
         [from |-> signedAuth.authorization.from,
          to |-> signedAuth.authorization.to,
          value |-> toString(signedAuth.authorization.value),
          validAfter |-> toString(signedAuth.authorization.validAfter),
          validBefore |-> toString(signedAuth.authorization.validBefore),
          nonce |-> signedAuth.authorization.nonce]]

\* createX402ExactPayload
createX402ExactPayload(signedAuth, config) ==
    [x402Version |-> 1, scheme |-> "exact", network |-> config.NETWORK,
     payload |->
         [signature |-> signedAuth.signature,
          authorization |->
              [from |-> signedAuth.authorization.from,
               to |-> signedAuth.authorization.to,
               value |-> toString(signedAuth.authorization.value),
               validAfter |-> toString(signedAuth.authorization.validAfter),
               validBefore |-> toString(signedAuth.authorization.validBefore),
               nonce |-> signedAuth.authorization.nonce]]]

\* the client builds an authorization for a payment: getX402Config throws
\* for a network outside the registry
ClientStart(t) ==
    /\ proc[t].pc = "idle"
    /\ \E network \in ClientNetworks, envDefault \in EnvDefaultNetworks,
          envAddress \in EnvAddresses, amountUSDC \in Amounts,
          dateNow \in ClockMs, nonce \in Nonces :
         LET networkName == OrElse(network, OrElse(envDefault, DEFAULT_NETWORK))
             p == [IdleProc EXCEPT !.kind = "client", !.network = network,
                                   !.networkName = networkName,
                                   !.amountUSDC = amountUSDC,
                                   !.envAddress = envAddress]
         IN  proc' = [proc EXCEPT ![t] =
               IF ~isNetworkSupported(networkName)
               THEN Throw(p, "Unsupported network")
               ELSE [p EXCEPT
                       !.networkConfig = getNetworkConfig(networkName, envAddress),
                       !.authorization =
                           createTransferAuthorization(OWNER, STRANGER, amountUSDC,
                               getX402Config(networkName, envAddress), dateNow, nonce),
                       !.pc = "cl_sign"]]
    /\ UNCHANGED <<store, activeList, chain, sink, sinkFailures, now>>

\* getTypedDataForSigning, whose domain is the one of network ||
\* 'avalanche-fuji', and the wallet signs or refuses
ClientSign(t) ==
    /\ proc[t].pc = "cl_sign"
    /\ LET p == proc[t]
           domainNetwork == OrElse(p.network, DEFAULT_NETWORK)
           q == [p EXCEPT !.typedData =
                    [domain |-> getNetworkConfig(domainNetwork, p.envAddress).erc3009Domain,
                     primaryType |-> "TransferWithAuthorization",
                     message |-> p.authorization]]
       IN  \/ proc' = [proc EXCEPT ![t] = Throw(q, "User rejected the request")]
           \/ \E signature \in Signatures :
                proc' = [proc EXCEPT ![t] =
                    [q EXCEPT !.signedAuth = [signature |-> signature,
                                              authorization |-> p.authorization],
                              !.pc = "cl_payload"]]
    /\ UNCHANGED <<store, activeList, chain, sink, sinkFailures, now>>

\* the signed authorization is put in its wire forms
ClientPayload(t) ==
    /\ proc[t].pc = "cl_payload"
    /\ LET p == proc[t]
           config == [NETWORK |-> p.networkName]
       IN  proc' = [proc EXCEPT ![t] =
               [p EXCEPT !.json = signedAuthorizationToJSON(p.signedAuth),
                         !.payload = createX402ExactPayload(p.signedAuth, config),
                         !.pc = "done"]]
    /\ UNCHANGED <<store, activeList, chain, sink, sinkFailures, now>>

\* ------------------------------------------------------------------------
\* The system
\* ------------------------------------------------------------------------
\* a record of the Facilitator interface as the directory stored it for the
\* owner, with its wallet and the two encrypted copies of its key
StoredRecord(id, status, network) ==
    [id |-> id, name |-> "facilitator", status |-> status,
     totalPayments |-> 0, lastUsed |-> 0,
     network |-> network, chainId |-> ChainIdOf(network),
     createdBy |-> OWNER,
     facilitatorWallet |-> "0x7777777777777777777777777777777777777777",
     paymentRecipient |-> "0x8888888888888888888888888888888888888888",
     createdAt |-> 0, registrationTxHash |-> "0xfirst",
     encryptedPrivateKey |-> "encrypted with the password",
     systemEncryptedKey |-> "encrypted with the master key"]

\* the records a store may hold for id "f1": created by the directory with a
\* network and its chain id, or older than network awareness with neither
InitialRecords ==
    { StoredRecord("f1", st, net) :
         st \in {"needs_funding", "active"},
         net \in {Undefined, "avalanche-fuji", "base-sepolia"} }

Init ==
    /\ \E r \in InitialRecords : store = [id \in Ids |-> IF id = "f1" THEN r ELSE NoRec]
    /\ activeList = {"f1"}
    /\ chain = <<>>
    /\ sink = {}
    /\ sinkFailures = {}
    /\ now = 1
    /\ proc = [t \in Procs |-> IdleProc]

\* a step of request t
Step(t) ==
    \/ SingleStart(t) \/ SingleResolve(t) \/ SingleSubmit(t) \/ SingleWait(t) \/ SingleLog(t)
    \/ BatchStart(t) \/ BatchCheck(t) \/ BatchSubmit(t) \/ BatchWait(t) \/ BatchLog(t)
    \/ CheckStart(t) \/ CheckBalance(t) \/ CheckLog(t)
    \/ GfGet(t) \/ GfSet(t) \/ SfSet(t) \/ SfSadd(t)

Next ==
    \/ \E t \in Tasks : Step(t)
    \/ \E h \in 1..Len(chain) : Mine(h)
    \/ Tick

Spec == Init /\ [][Next]_vars

\* the handlers always run on; the chain need not mine a transaction
FairSpec == Spec /\ \A t \in Tasks : WF_vars(Step(t))

\* the store of a directory with two facilitators, the second bound to
\* base-sepolia
InitFunding ==
    /\ \E r \in InitialRecords, st \in {"needs_funding", "active"} :
         store = [id \in Ids |->
                    IF id = "f1" THEN r
                    ELSE StoredRecord("f2", st, "base-sepolia")]
    /\ activeList = Ids
    /\ chain = <<>>
    /\ sink = {}
    /\ sinkFailures = {}
    /\ now = 1
    /\ proc = [t \in Procs |-> IdleProc]

\* a step of a listing request
ListStep(t) == ListStart(t) \/ GaSmembers(t) \/ GaMget(t) \/ ListFinish(t)

\* a step of a callback of a listing
ItemStep(k) == ItemBalance(k) \/ GfGet(k) \/ GfSet(k) \/ SfSet(k) \/ SfSadd(k)

\* a step of a balance request
BalanceStep(t) == BalanceStart(t) \/ BalanceRead(t)

\* a step of a check-and-activate request
MonitorStep(t) ==
    \/ CheckStart(t) \/ CheckBalance(t) \/ CheckLog(t)
    \/ GfGet(t) \/ GfSet(t) \/ SfSet(t) \/ SfSadd(t)

NextFunding ==
    \/ ListStep("t1")
    \/ BalanceStep("t1")
    \/ \E k \in Callbacks : ItemStep(k)
    \/ MonitorStep("t2")

\* the funding monitor alone: check-and-activate, listing and balance
\* requests over two facilitators
FundingSpec == InitFunding /\ [][NextFunding]_vars

\* the store of a directory whose facilitator has any status of the
\* Facilitator interface, 'inactive' included
InitReconcile ==
    /\ \E st \in {"needs_funding", "active", "inactive"},
          net \in {Undefined, "avalanche-fuji", "base-sepolia"} :
         store = [id \in Ids |-> IF id = "f1" THEN StoredRecord("f1", st, net) ELSE NoRec]
    /\ activeList = {"f1"}
    /\ chain = <<>>
    /\ sink = {}
    /\ sinkFailures = {}
    /\ now = 1
    /\ proc = [t \in Procs |-> IdleProc]

NextReconcile ==
    \/ ListStep("t1")
    \/ \E k \in Callbacks : ItemStep(k)
    \/ MonitorStep("t2")

\* reconciliation alone: the listing loop and check-and-activate over one
\* facilitator of any status
ReconcileSpec == InitReconcile /\ [][NextReconcile]_vars

\* a step of a delete request
DeleteStep(t) == DeleteStart(t) \/ DeleteCheck(t) \/ DeleteDel(t) \/ GfGet(t) \/ GfSet(t)

\* a step of a create-from-existing request
CreateStep(t) ==
    \/ CreateStart(t) \/ CreateVerify(t) \/ CreatePayment(t) \/ CreateLog(t)
    \/ GaSmembers(t) \/ GaMget(t)
    \/ GfGet(t) \/ GfSet(t) \/ SfSet(t) \/ SfSadd(t)

\* a step of a random-selection request
RandomStep(t) ==
    \/ RandomStart(t) \/ RandomRespond(t)
    \/ GaSmembers(t) \/ GaMget(t) \/ GfGet(t) \/ GfSet(t)

NextDirectory ==
    \/ CreateStep("t1")
    \/ RandomStep("t1")
    \/ ListStep("t1")
    \/ \E k \in Callbacks : ItemStep(k)
    \/ DeleteStep("t2")

\* the directory: creation and deletion of facilitators, and selection
DirectorySpec == Init /\ [][NextDirectory]_vars

\* one single settlement with any request body, running alone
SingleStep(t) ==
    \/ SingleStartAny(t) \/ SingleResolve(t) \/ SingleSubmit(t) \/ SingleWait(t)
    \/ SingleLog(t)
    \/ GfGet(t) \/ GfSet(t) \/ SfSet(t) \/ SfSadd(t)

NextSingle ==
    \/ SingleStep("t1")
    \/ \E h \in 1..Len(chain) : Mine(h)
    \/ Tick

SingleSpec == Init /\ [][NextSingle]_vars

\* a step of a paying client
ClientStep(t) == ClientStart(t) \/ ClientSign(t) \/ ClientPayload(t)

\* one paying client and nothing else
NextClient ==
    \/ ClientStep("t1")

ClientSpec == Init /\ [][NextClient]_vars

\* a random selection or a delete on t1 while t2 runs a check-and-activate
\* or a delete
NextSelection ==
    \/ RandomStep("t1")
    \/ DeleteStep("t1")
    \/ MonitorStep("t2")
    \/ DeleteStep("t2")

SelectionSpec == Init /\ [][NextSelection]_vars

\* ------------------------------------------------------------------------
\* Properties
\* ------------------------------------------------------------------------
\* the transactions request t has submitted, by their hashes
TxsOf(t) == {h \in 1..Len(chain) : chain[h].task = t}

\* no request other than t has started
Alone(t) == \A u \in Tasks \ {t} : proc[u].pc = "idle"

\* C1: a batch submits its authorizations in array order, and the
\* transaction of authorization i+1 is submitted only after the transaction
\* of authorization i was confirmed.
C1_LegsSequential ==
    \A t \in Tasks : proc[t].kind = "batch" =>
        \A h \in TxsOf(t) :
            /\ chain[h].leg = 1 + Cardinality({g \in TxsOf(t) : g < h})
            /\ \A g \in TxsOf(t) : g < h => chain[g].state = "confirmed"

\* a batch has submitted its second authorization
C1_Witness ==
    \E t \in Tasks : proc[t].kind = "batch" /\ \E h \in TxsOf(t) : chain[h].leg = 2

\* C2: once the submission or the confirmation of authorization k of a
\* batch has failed, the request has submitted no authorization after k and
\* never will.
C2_StopsAtFailure ==
    \A t \in Tasks : proc[t].kind = "batch" =>
        /\ \A h \in TxsOf(t) : chain[h].state = "reverted" =>
               \A g \in TxsOf(t) : chain[g].leg <= chain[h].leg
        /\ (proc[t].caught \in SubmitOutcomes) =>
               /\ proc[t].pc = "done"
               /\ \A g \in TxsOf(t) : chain[g].leg < proc[t].i

\* a batch [A, B, C] has ended with B reverted
C2_Witness ==
    \E t \in Tasks :
        /\ proc[t].kind = "batch" /\ proc[t].n >= 3 /\ proc[t].pc = "done"
        /\ \E h \in TxsOf(t) : chain[h].leg = 2 /\ chain[h].state = "reverted"

\* the settlement counter and the last-use time of the record are the ones
\* every store begins with
CounterUntouched(id) ==
    store[id] # NoRec => store[id].totalPayments = 0 /\ store[id].lastUsed = 0

\* C3: when authorization k of a batch fails after earlier authorizations
\* were confirmed, the response carries the hashes of exactly the confirmed
\* transactions together with the failure detail.
C3_PartialHashesReturned ==
    \A t \in Tasks :
        (/\ proc[t].kind = "batch" /\ proc[t].pc = "done"
         /\ proc[t].caught # Undefined /\ Len(proc[t].txHashes) >= 1
         /\ proc[t].i <= proc[t].n)
        => /\ "message" \in DOMAIN proc[t].resp
           /\ "txHashes" \in DOMAIN proc[t].resp
           /\ proc[t].resp.txHashes = proc[t].txHashes

\* request t is a check-and-activate that has written a new status and
\* answered
StatusWritten(t) ==
    /\ proc[t].kind = "check" /\ proc[t].pc = "done" /\ proc[t].resp.status = 200
    /\ proc[t].facilitator # NoRec /\ proc[t].facilitator.status # proc[t].newStatus

\* request u is a settlement that has written the counter of record id and
\* answered
PaymentRecorded(u, id) ==
    /\ proc[u].kind \in {"single", "batch"} /\ proc[u].pc = "done"
    /\ proc[u].facilitatorId = id /\ proc[u].recorded = 1

\* C4: when a status write of the funding monitor and a counter write of a
\* settlement on the same record have both completed, in whatever order
\* their steps interleaved, the stored record has the new status and the
\* incremented counter, so the counter has not gone down.
C4_BothWritesSurvive ==
    \A t \in Tasks, u \in Tasks :
        (StatusWritten(t) /\ PaymentRecorded(u, proc[t].facilitatorId))
        => /\ store[proc[t].facilitatorId].status = proc[t].newStatus
           /\ store[proc[t].facilitatorId].totalPayments = 1

\* the call of a single settlement failed: its submission threw, or its
\* transaction reverted
SingleCallFailed(t) ==
    /\ proc[t].kind = "single" /\ proc[t].pc = "done"
    /\ \/ proc[t].tx # 0 /\ chain[proc[t].tx].state = "reverted"
       \/ proc[t].tx = 0 /\ proc[t].privateKey

\* C5: a single settlement whose call reverts or whose submission fails
\* answers with a failure that carries the underlying reason, and the
\* request does not write the settlement counter or the last-use time: it
\* never runs the write of recordPayment, and a request running alone
\* leaves both fields of the stored record as they were.
C5_FailureLeavesCounter ==
    \A t \in Tasks : SingleCallFailed(t) =>
        /\ proc[t].resp.status = 500
        /\ proc[t].resp.message =
             (IF proc[t].tx # 0 THEN "transaction execution reverted" ELSE proc[t].caught)
        /\ proc[t].resp.message \in
             {"transaction execution reverted", "execution reverted", "network error"}
        /\ proc[t].recorded = 0
        /\ (Alone(t) => CounterUntouched(proc[t].facilitatorId))

\* the transaction of a single settlement has reverted and the request has
\* answered
C5_Witness ==
    \E t \in Tasks :
        /\ SingleCallFailed(t) /\ Alone(t)
        /\ proc[t].tx # 0 /\ proc[t].resp.status = 500

\* C6: a batch request for a network other than the one its facilitator is
\* bound to (the default network for a record without one) answers 400
\* without decrypting the signing key and without submitting a transaction,
\* and does not write the settlement counter or the last-use time.
C6_MismatchBeforeChain ==
    \A t \in Tasks :
        (/\ proc[t].kind = "batch" /\ proc[t].facilitator # NoRec
         /\ NetworkOf(proc[t].facilitator) # proc[t].network)
        => /\ proc[t].pc \in {"b_check", "done"}
           /\ (proc[t].pc = "done" => proc[t].resp.status = 400)
           /\ ~proc[t].privateKey
           /\ TxsOf(t) = {}
           /\ proc[t].recorded = 0
           /\ (Alone(t) => CounterUntouched(proc[t].facilitatorId))

\* a batch request for base-sepolia on a record without a network has been
\* answered
C6_Witness ==
    \E t \in Tasks :
        /\ proc[t].kind = "batch" /\ proc[t].pc = "done" /\ Alone(t)
        /\ proc[t].facilitator # NoRec
        /\ proc[t].network = "base-sepolia"
        /\ NetworkOf(proc[t].facilitator) = DEFAULT_NETWORK
        /\ proc[t].resp.status = 400

\* C7: a failure of the audit sink does not block a settlement: the
\* remaining authorizations of a batch are still submitted, the counter is
\* still incremented and the confirmed settlement is answered as a success.
C7_AuditFailureHarmless ==
    \A t \in Tasks :
        (/\ proc[t].kind \in {"single", "batch"} /\ proc[t].pc = "done"
         /\ \E e \in sinkFailures : e.task = t)
        => /\ proc[t].resp.status = 200
           /\ proc[t].recorded = 1
           /\ Cardinality(TxsOf(t)) = proc[t].n

\* C8: a single settlement that fails after its transaction was submitted
\* answers with the stage reached and the hash of that transaction.
C8_FailureCarriesHash ==
    \A t \in Tasks :
        (/\ proc[t].kind = "single" /\ proc[t].pc = "done"
         /\ proc[t].tx # 0 /\ proc[t].resp.status # 200)
        => /\ "txHash" \in DOMAIN proc[t].resp
           /\ proc[t].resp.txHash = proc[t].tx
           /\ "stage" \in DOMAIN proc[t].resp

\* C9: every settlement that waits for a confirmation eventually answers,
\* also when the transaction never gets a receipt.
C9_WaitTerminates ==
    \A t \in Tasks : (proc[t].pc \in {"s_wait", "b_wait"}) ~> (proc[t].pc = "done")

\* the class a caller can read off a response: the HTTP status and the error
\* label
Outcome(r) == <<r.status, IF "error" \in DOMAIN r THEN r.error ELSE Undefined>>

\* C10: a settlement that failed on a transport error is answered with an
\* outcome that differs from the outcome of a settlement of the same route
\* that failed on a revert.
C10_TransportDistinct ==
    \A t \in Tasks, u \in Tasks :
        (/\ proc[t].kind \in {"single", "batch"} /\ proc[u].kind = proc[t].kind
         /\ proc[t].pc = "done" /\ proc[u].pc = "done"
         /\ proc[t].caught = "network error"
         /\ proc[u].caught \in {"execution reverted", "transaction execution reverted"})
        => Outcome(proc[t].resp) # Outcome(proc[u].resp)

\* the network a record is bound to: its network, or the default network
\* for a record stored without one
BoundNetwork(facilitator) ==
    IF facilitator.network = Undefined THEN "avalanche-fuji" ELSE facilitator.network

\* the network C11 expects request p to settle on
C11_Expected(p) ==
    IF p.network \in NETWORK_CONFIGS
    THEN p.network
    ELSE IF \E n \in NETWORK_CONFIGS : ChainIdOf(n) = p.chainId
         THEN CHOOSE n \in NETWORK_CONFIGS : ChainIdOf(n) = p.chainId
         ELSE BoundNetwork(store[p.facilitatorId])

\* C11: every transaction of a single settlement is submitted on the
\* network named in the request if the registry has it, else on the registry
\* network with the chain id of the request, else on the network the
\* facilitator record is bound to.
C11_ResolutionOrder ==
    \A h \in 1..Len(chain) :
        proc[chain[h].task].kind = "single" =>
            chain[h].network = C11_Expected(proc[chain[h].task])

\* a settlement whose request names no registry network was submitted on
\* the network of its chain id, which is not the one the record is bound to
C11_Witness ==
    \E h \in 1..Len(chain) :
        LET p == proc[chain[h].task]
        IN  /\ p.kind = "single"
            /\ p.network = "solana-devnet"
            /\ p.chainId = 84532
            /\ chain[h].network = "base-sepolia"
            /\ BoundNetwork(store[p.facilitatorId]) = "avalanche-fuji"

\* addr can name a contract: a string of 42 characters or more
C12_Usable(addr) == addr \notin {Undefined, "0x"} /\ Len(addr) >= 42

\* C12 as stated: the token contract called by a single settlement is the
\* first usable one among the usdcAddress of the request, its contractAddress
\* and the token address of the registry.
C12_FirstOfThree ==
    \A h \in 1..Len(chain) :
        LET p == proc[chain[h].task]
        IN  p.kind = "single" =>
                chain[h].contract =
                    IF C12_Usable(p.usdcAddress) THEN p.usdcAddress
                    ELSE IF C12_Usable(p.contractAddress) THEN p.contractAddress
                    ELSE USDC_CONTRACT_ADDRESS(chain[h].network)

\* C12 (amended): the token contract called by a single settlement is the
\* first usable one among the usdcAddress of the request, its
\* contractAddress, its verifyingContract, the verifyingContract of the
\* domain of the payload and the token address of the registry.
C12_FirstOfFive ==
    \A h \in 1..Len(chain) :
        LET p == proc[chain[h].task]
        IN  p.kind = "single" =>
                chain[h].contract =
                    IF C12_Usable(p.usdcAddress) THEN p.usdcAddress
                    ELSE IF C12_Usable(p.contractAddress) THEN p.contractAddress
                    ELSE IF C12_Usable(p.verifyingContract) THEN p.verifyingContract
                    ELSE IF C12_Usable(p.domainVerifyingContract)
                         THEN p.domainVerifyingContract
                    ELSE USDC_CONTRACT_ADDRESS(chain[h].network)

\* a settlement whose usdcAddress is '0x' and whose verifyingContract is
\* too short called the contract named by the domain of its payload
C12_Witness ==
    \E h \in 1..Len(chain) :
        LET p == proc[chain[h].task]
        IN  /\ p.kind = "single"
            /\ p.usdcAddress = "0x"
            /\ p.contractAddress = Undefined
            /\ p.verifyingContract = "0x3333"
            /\ p.domainVerifyingContract # Undefined
            /\ chain[h].contract = p.domainVerifyingContract

\* the requests and callbacks that reconcile a status with a balance
Reconcilers == {t \in Procs : proc[t].kind \in {"check", "item"}}

SameStatus(t) ==
    /\ proc[t].balance # NoBalance
    /\ proc[t].newStatus = proc[t].facilitator.status

\* C14 as stated: a reconciliation that derives the status it read from the
\* store performs no write of the record.
C14_NoWriteWhenEqual ==
    \A t \in Reconcilers :
        SameStatus(t) => proc[t].stored = 0 /\ proc[t].migrated = 0

\* C14 (amended): a reconciliation that derives the status it read from the
\* store never calls storeFacilitator (its only write is the one by which
\* getFacilitator persists the default network of a record without one),
\* and a reconciliation that derives another status and ends without an
\* exception has called storeFacilitator once.
C14_StatusWriteOnlyOnChange ==
    \A t \in Reconcilers :
        /\ SameStatus(t) => proc[t].stored = 0
        /\ (/\ proc[t].balance # NoBalance /\ ~SameStatus(t)
            /\ proc[t].pc = "done" /\ proc[t].caught = Undefined)
               => proc[t].stored = 1

\* a reconciliation of a record without network ended with the status it
\* had read: it wrote the migrated record and nothing else
C14_Witness ==
    \E t \in Reconcilers :
        /\ SameStatus(t) /\ proc[t].pc = "done"
        /\ proc[t].migrated = 1 /\ proc[t].stored = 0

\* request t answered with an isFunded flag
HasIsFunded(t) == proc[t].pc = "done" /\ "isFunded" \in DOMAIN proc[t].resp

Activated(t) ==
    /\ proc[t].pc = "done"
    /\ proc[t].newStatus = "active"
    /\ proc[t].stored > 0

\* C16: every reconciliation that wrote the status active, by
\* check-and-activate or by a callback of the listing, has passed a
\* facilitator_activated event to the audit log.
C16_ActivationAudited ==
    \A t \in Reconcilers :
        Activated(t) =>
            \E e \in sink \cup sinkFailures :
                e.task = t /\ e.eventType = "facilitator_activated"

\* this step stores record id with status active where it was not
BecomesActive(id) ==
    /\ store'[id] # NoRec
    /\ store'[id].status = "active"
    /\ (store[id] = NoRec \/ store[id].status # "active")

\* C17: a step that makes a stored status active is taken by a request that
\* has read, in this call, a balance above the threshold; a step that
\* stores a record where there was none stores it with status needs_funding.
C17_ActiveOnlyAfterBalance ==
    [][\A id \in Ids :
         /\ BecomesActive(id) =>
                \E t \in Procs : /\ proc'[t] # proc[t]
                                 /\ proc[t].balance > DEACTIVATION_THRESHOLD
         /\ (store[id] = NoRec /\ store'[id] # NoRec)
                => store'[id].status = "needs_funding"]_vars

\* the networks a listing request asks for: the one it names and the
\* registry network of the chain id it gives
RequestedNetworks(p) ==
    {p.network, IF p.chainIdParam # Undefined /\ parseInt(p.chainIdParam) # NaN
                THEN getNetworkByChainId(parseInt(p.chainIdParam))
                ELSE Undefined} \ {Undefined}

\* listing request p supplies a network name or a numeric chain id
SuppliesFilter(p) ==
    \/ p.network # Undefined
    \/ (p.chainIdParam # Undefined /\ parseInt(p.chainIdParam) # NaN)

\* C18: a listing that was asked for a network, by name or by chain id,
\* returns only records whose network is the one asked for.
C18_OnlyRequestedNetwork ==
    \A t \in Tasks :
        (/\ proc[t].kind = "list" /\ proc[t].pc = "done"
         /\ proc[t].resp.status = 200 /\ SuppliesFilter(proc[t])) =>
            \A j \in 1..Len(proc[t].resp.facilitators) :
                proc[t].resp.facilitators[j].network \in RequestedNetworks(proc[t])

C20_MigrationOnce ==
    \A t \in Procs :
        /\ proc[t].migrated <= 1
        /\ proc[t].migrated = 1 =>
              /\ store[proc[t].facilitatorId].network = "avalanche-fuji"
              /\ store[proc[t].facilitatorId].chainId = 43113
              /\ (proc[t].facilitator # NoRec =>
                     /\ proc[t].facilitator.network = "avalanche-fuji"
                     /\ proc[t].facilitator.chainId = 43113)
              /\ (proc[t].call # "handler" /\ proc[t].pc = "sf_set") =>
                     /\ proc[t].rec.network = "avalanche-fuji"
                     /\ proc[t].rec.chainId = 43113

\* a settlement of a record without network has read it twice, in the
\* handler and in recordPayment, and written the migrated record once
C20_Witness ==
    \E t \in Tasks :
        /\ proc[t].kind = "single"
        /\ proc[t].migrated = 1
        /\ proc[t].recorded = 1

\* two spellings of one address
SameAddress(a, b) == a = b \/ {a, b} = {OWNER, OWNER_LOWER}

\* delete request p names a stored record and p's caller is not its creator
ForeignCaller(p) ==
    /\ p.kind = "delete"
    /\ p.userAddress # Undefined
    /\ p.facilitatorId # Undefined
    /\ store[p.facilitatorId] # NoRec
    /\ ~SameAddress(p.userAddress, store[p.facilitatorId].createdBy)

\* a step of delete request t removes a record only if the caller is its
\* creator, and a request that read the record of another creator ends
\* with status 403
OnlyOwnerDeletes(t) ==
    /\ (proc[t].kind = "delete" /\ store'[proc[t].facilitatorId] = NoRec
            /\ store[proc[t].facilitatorId] # NoRec)
           => SameAddress(proc[t].userAddress, store[proc[t].facilitatorId].createdBy)
    /\ (/\ ForeignCaller(proc[t])
        /\ proc[t].pc = "d_check" /\ proc[t].facilitator # NoRec
        /\ proc'[t].pc = "done") => proc'[t].resp.status = 403

\* C21 as stated: a delete request removes the record only for its creator;
\* a request of any other caller ends as unauthorized and none of its steps
\* changes the store or the active list.
C21_ForeignDeleteChangesNothing ==
    [][\A t \in Tasks : proc'[t] # proc[t] =>
          /\ OnlyOwnerDeletes(t)
          /\ ForeignCaller(proc[t]) => (store' = store /\ activeList' = activeList)]_vars

\* C21 (amended): a delete request removes the record only for its
\* creator; a request of any other caller ends as unauthorized, none of its
\* steps changes the active list, and the only step of it that changes the
\* store is the write by which getFacilitator writes back the record it
\* read without network, with the default network and chain id: the
\* record stays, with its id and creator, and no other record changes.
C21_ForeignDeleteOnlyMigrates ==
    [][\A t \in Tasks : proc'[t] # proc[t] =>
          /\ OnlyOwnerDeletes(t)
          /\ ForeignCaller(proc[t]) =>
                /\ activeList' = activeList
                /\ \/ store' = store
                   \/ /\ proc[t].pc = "gf_set"
                      /\ store' = [store EXCEPT ![proc[t].facilitatorId] = proc[t].rec]
                      /\ proc[t].rec.network = "avalanche-fuji"
                      /\ proc[t].rec.chainId = 43113
                      /\ proc[t].rec.id = proc[t].facilitatorId
                      /\ proc[t].rec.createdBy = store[proc[t].facilitatorId].createdBy]_vars

\* a caller that is not the creator asked to delete a record without
\* network: the answer is 403 and the record is stored with the default
\* network
C21_Witness ==
    \E t \in Tasks :
        /\ ForeignCaller(proc[t])
        /\ proc[t].pc = "done" /\ proc[t].resp.status = 403
        /\ proc[t].migrated = 1
        /\ proc[t].facilitatorId \in activeList

\* ------------------------------------------------------------------------
\* C22
\* ------------------------------------------------------------------------
\* the addresses of the model that are 20 bytes in hexadecimal after 0x
TwentyByteHex ==
    {OWNER, OWNER_LOWER, STRANGER, "0x8888888888888888888888888888888888888888"}

\* the fields of a create request pass the validations
ValidFields(p) ==
    /\ p.name # Undefined /\ Len(p.name) >= 3 /\ Len(p.name) <= 50
    /\ p.paymentRecipient \in TwentyByteHex
    /\ p.createdBy \in TwentyByteHex
    /\ p.network \in NETWORK_CONFIGS

\* the create request of t answers in this step, after a validation or the
\* payment proof failed
CreateFails(t) ==
    /\ proc[t].kind = "create" /\ proc[t].pc # "done" /\ proc'[t].pc = "done"
    /\ ~ValidFields(proc'[t]) \/ proc'[t].verification = "invalid"

\* a create request persists a record or adds an id to the active index
\* only when its fields are valid and the payment proof verified
PersistsOnlyWhenValid(t) ==
    (/\ proc[t].kind = "create"
     /\ \/ proc'[t].stored > proc[t].stored
        \/ proc[t].pc = "sf_sadd" /\ activeList' # activeList)
    => ValidFields(proc[t]) /\ proc[t].verification = "valid"

\* C22 as stated: a facilitator is persisted and indexed only when name,
\* addresses, network and payment proof are valid, and a request failing
\* one of them has written nothing to the store
C22_FailedCreateWritesNothing ==
    [][\A t \in Tasks :
         /\ PersistsOnlyWhenValid(t)
         /\ CreateFails(t) => proc'[t].stored = 0 /\ proc'[t].migrated = 0]_vars

\* C22 amended: a facilitator is persisted and indexed only when name,
\* addresses, network and payment proof are valid; a request with invalid
\* fields writes nothing, and one whose payment proof fails stores no
\* record and leaves the index alone, its only writes being the
\* migrations of legacy records it read
C22_FailedCreateStoresNothing ==
    [][\A t \in Tasks :
         /\ PersistsOnlyWhenValid(t)
         /\ CreateFails(t) =>
              /\ proc'[t].stored = 0
              /\ activeList' = activeList
              /\ ~ValidFields(proc'[t]) => proc'[t].migrated = 0]_vars

\* a create request succeeded and its record is stored and indexed
C22_Witness ==
    \E t \in Tasks :
        /\ proc[t].kind = "create" /\ proc[t].pc = "done"
        /\ proc[t].resp.status = 200
        /\ ValidFields(proc[t]) /\ proc[t].verification = "valid"
        /\ store[proc[t].rec.id] = proc[t].rec
        /\ proc[t].rec.id \in activeList

\* ------------------------------------------------------------------------
\* C23
\* ------------------------------------------------------------------------
\* record r carries neither encrypted copy of a signing key
NoEncryptedKey(r) ==
    /\ "encryptedPrivateKey" \notin DOMAIN r
    /\ "systemEncryptedKey" \notin DOMAIN r

\* no record of sequence s carries an encrypted key
NoEncryptedKeys(s) == \A j \in 1..Len(s) : NoEncryptedKey(s[j])

\* C23: what getActiveFacilitators and getFacilitatorsByCreator return,
\* and the listing and random-selection responses, carry neither
\* encryptedPrivateKey nor systemEncryptedKey of any facilitator.
C23_NoEncryptedKeyReturned ==
    \A t \in Procs :
        /\ NoEncryptedKeys(proc[t].facilitators)
        /\ NoEncryptedKeys(proc[t].userFacilitators)
        /\ (proc[t].kind \in {"list", "random"} /\ proc[t].resp # NoResp) =>
              /\ NoEncryptedKey(proc[t].resp)
              /\ "facilitators" \in DOMAIN proc[t].resp =>
                    NoEncryptedKeys(proc[t].resp.facilitators)
              /\ "facilitator" \in DOMAIN proc[t].resp =>
                    NoEncryptedKey(proc[t].resp.facilitator)

\* a random selection answered with a facilitator whose stored record
\* holds both encrypted keys
C23_Witness ==
    \E t \in Tasks :
        /\ proc[t].kind = "random" /\ proc[t].pc = "done"
        /\ proc[t].resp.status = 200
        /\ store[proc[t].resp.facilitator.id] # NoRec
        /\ ~NoEncryptedKey(store[proc[t].resp.facilitator.id])

\* ------------------------------------------------------------------------
\* C24
\* ------------------------------------------------------------------------
\* listing request p has awaited its callbacks and answered
ListingAnswered(p) ==
    p.kind = "list" /\ p.pc = "done" /\ p.facilitators # <<>>

\* C24: when a listing has answered, its status is 200 and it returns one
\* result for each record it read; the result of a callback that caught an
\* exception is the view getActiveFacilitators had read, and the result of
\* every callback that read a balance is that view with the status the
\* balance calls for.
C24_FailureIsolated ==
    \A t \in Tasks : ListingAnswered(proc[t]) =>
        /\ proc[t].resp.status = 200
        /\ Len(proc[t].resp.facilitators) = Len(proc[t].facilitators)
        /\ \A j \in 1..Len(proc[t].facilitators) :
              LET c == proc[CallbackOf(j)]
                  view == proc[t].facilitators[j]
              IN  /\ proc[t].resp.facilitators[j] = c.result
                  /\ c.caught # Undefined => c.result = view
                  /\ (c.caught = Undefined /\ c.balance # NoBalance) =>
                        c.result = [view EXCEPT
                            !.status = IF c.balance > DEACTIVATION_THRESHOLD
                                       THEN "active" ELSE "needs_funding"]

\* a listing of two records answered after one callback caught an
\* exception and the other changed the status of its record
C24_Witness ==
    \E t \in Tasks :
        /\ ListingAnswered(proc[t])
        /\ Len(proc[t].facilitators) = 2
        /\ \E j, m \in 1..2 :
              /\ j # m
              /\ proc[CallbackOf(j)].caught # Undefined
              /\ proc[CallbackOf(m)].caught = Undefined
              /\ proc[CallbackOf(m)].stored > 0
              /\ proc[t].resp.facilitators[m].status # proc[t].facilitators[m].status

\* ------------------------------------------------------------------------
\* C25
\* ------------------------------------------------------------------------
\* C25: in every registry entry a client has read, under every value of the
\* environment's token address, the signing domain's chainId is the id of
\* the entry's chain and its verifyingContract is the entry's usdcAddress.
C25_DomainMatchesRegistry ==
    \A t \in Tasks : proc[t].networkConfig # NoRec =>
        /\ proc[t].networkConfig.erc3009Domain.chainId = proc[t].networkConfig.chain.id
        /\ proc[t].networkConfig.erc3009Domain.verifyingContract =
               proc[t].networkConfig.usdcAddress

\* a client read the entry of arbitrum-sepolia while the environment gave
\* another token address for it
C25_Witness ==
    \E t \in Tasks :
        /\ proc[t].networkConfig # NoRec
        /\ proc[t].networkConfig.name = "arbitrum-sepolia"
        /\ proc[t].envAddress = "0xA0b86991c6218b36c1d19D4a2e9Eb0cE3606eB48"
        /\ proc[t].networkConfig.usdcAddress = proc[t].envAddress

\* ------------------------------------------------------------------------
\* C26
\* ------------------------------------------------------------------------
\* C26: every authorization a client built has validBefore - validAfter
\* equal to TIMEOUT_SECONDS plus the 60 seconds taken off validAfter, and
\* so validAfter < validBefore.
C26_ValidityWindow ==
    \A t \in Tasks : proc[t].authorization # NoRec =>
        /\ proc[t].authorization.validBefore - proc[t].authorization.validAfter
               = TIMEOUT_SECONDS + 60
        /\ proc[t].authorization.validAfter < proc[t].authorization.validBefore

\* a client built an authorization for half a USDC at a time that is not a
\* whole number of seconds
C26_Witness ==
    \E t \in Tasks :
        /\ proc[t].authorization # NoRec
        /\ proc[t].authorization.value = 500000
        /\ proc[t].authorization.validAfter = 1939
        /\ proc[t].networkName = "polygon-amoy"

\* ------------------------------------------------------------------------
\* C27
\* ------------------------------------------------------------------------
\* the value of a decimal digit character
DigitValue(c) ==
    CASE c = "0" -> 0 [] c = "1" -> 1 [] c = "2" -> 2 [] c = "3" -> 3 [] c = "4" -> 4
      [] c = "5" -> 5 [] c = "6" -> 6 [] c = "7" -> 7 [] c = "8" -> 8 [] c = "9" -> 9

\* the number a sequence of digit characters denotes
RECURSIVE ParseDigits(_)
ParseDigits(str) ==
    IF str = <<>> THEN 0
    ELSE 10 * ParseDigits(SubSeq(str, 1, Len(str) - 1)) + DigitValue(str[Len(str)])

\* the integer a decimal numeral denotes
ParseDecimal(str) ==
    IF str # <<>> /\ str[1] = "-" THEN 0 - ParseDigits(Tail(str)) ELSE ParseDigits(str)

\* wire form w gives back signed authorization a when its strings are parsed
RoundTrips(w, a) ==
    /\ ParseDecimal(w.authorization.value) = a.authorization.value
    /\ ParseDecimal(w.authorization.validAfter) = a.authorization.validAfter
    /\ ParseDecimal(w.authorization.validBefore) = a.authorization.validBefore
    /\ w.authorization.from = a.authorization.from
    /\ w.authorization.to = a.authorization.to
    /\ w.authorization.nonce = a.authorization.nonce
    /\ w.signature = a.signature

\* C27: the wire forms signedAuthorizationToJSON and createX402ExactPayload
\* make of a signed authorization give back its value, validAfter and
\* validBefore when their decimal strings are parsed, and carry its from,
\* to, nonce and signature unchanged.
C27_WireRoundTrip ==
    \A t \in Tasks :
        /\ proc[t].json # NoRec => RoundTrips(proc[t].json, proc[t].signedAuth)
        /\ proc[t].payload # NoRec =>
              RoundTrips(proc[t].payload.payload, proc[t].signedAuth)

\* a signed authorization of 2000 USDC with a negative validAfter was put
\* in both wire forms
C27_Witness ==
    \E t \in Tasks :
        /\ proc[t].json # NoRec /\ proc[t].payload # NoRec
        /\ proc[t].signedAuth.authorization.value = 2000000000
        /\ proc[t].signedAuth.authorization.validAfter = -1
        /\ proc[t].json.authorization.validAfter = <<"-", "1">>
        /\ Len(proc[t].payload.payload.authorization.value) = 10

\* ------------------------------------------------------------------------
\* C28
\* ------------------------------------------------------------------------
\* settlement request p
Settles(p) == p.kind \in {"single", "batch"}

\* settlement request p ended because the facilitator was not found or its
\* key could not be decrypted
FailedBeforeSubmit(p) ==
    /\ Settles(p) /\ p.pc = "done"
    /\ p.resp.status = 404 \/ p.caught = "Decryption failed"

\* a settlement submits only with a resolved facilitator and a decrypted
\* key, increments the counter only after all its transactions were
\* confirmed, and a failure at resolution or decryption leaves it without
\* transaction, increment and stored record
StepsInOrder(t) ==
    /\ TxsOf(t) # {} => proc[t].privateKey = TRUE /\ proc[t].facilitator # NoRec
    /\ (proc[t].recorded > 0 \/ proc[t].call = "recordPayment") =>
          /\ TxsOf(t) # {}
          /\ \A h \in TxsOf(t) : chain[h].state = "confirmed"
    /\ FailedBeforeSubmit(proc[t]) =>
          /\ TxsOf(t) = {}
          /\ proc[t].recorded = 0 /\ proc[t].stored = 0

\* C28 as stated: the steps of a settlement occur in the order resolve,
\* decrypt, submit, confirm, increment, and a settlement that failed at
\* resolution or decryption has submitted nothing and written nothing to
\* the record.
C28_FailureLeavesRecord ==
    \A t \in Tasks : Settles(proc[t]) =>
        /\ StepsInOrder(t)
        /\ FailedBeforeSubmit(proc[t]) => proc[t].migrated = 0

\* C28 amended: the steps of a settlement occur in the order resolve,
\* decrypt, submit, confirm, increment; a settlement that failed at
\* resolution or decryption has submitted nothing, incremented nothing
\* and stored nothing, its only possible write being the one by which
\* getFacilitator gave a record without network the defaults, and none at
\* all when the facilitator was not found.
C28_OrderedAndFailureOnlyMigrates ==
    \A t \in Tasks : Settles(proc[t]) =>
        /\ StepsInOrder(t)
        /\ FailedBeforeSubmit(proc[t]) =>
              /\ proc[t].migrated <= 1
              /\ proc[t].resp.status = 404 => proc[t].migrated = 0

\* one settlement incremented the counter after its transaction was
\* confirmed, and another failed at decryption having submitted nothing
C28_Witness ==
    \E t, u \in Tasks :
        /\ t # u
        /\ Settles(proc[t]) /\ proc[t].recorded = 1 /\ TxsOf(t) # {}
        /\ Settles(proc[u]) /\ proc[u].caught = "Decryption failed"
        /\ TxsOf(u) = {}

\* ------------------------------------------------------------------------
\* C29
\* ------------------------------------------------------------------------
\* request t submits a transaction in this step
Submits(t) ==
    /\ Len(chain') = Len(chain) + 1
    /\ chain'[Len(chain')].task = t

\* C29: whenever a settlement submits a transaction with a facilitator's
\* key, the stored status of that facilitator is active.
C29_OnlyActiveSettles ==
    [][\A t \in Tasks : Submits(t) =>
          /\ store[proc[t].facilitatorId] # NoRec
          /\ store[proc[t].facilitatorId].status = "active"]_vars

\* ------------------------------------------------------------------------
\* C30
\* ------------------------------------------------------------------------
\* C30: every transaction a settlement submits with a facilitator's key is
\* submitted on the network the facilitator's record is bound to, the
\* default network for a record without one.
C30_SettlesOnBoundNetwork ==
    [][\A t \in Tasks : Submits(t) =>
          chain'[Len(chain')].network = BoundNetwork(proc[t].facilitator)]_vars

\* ------------------------------------------------------------------------
\* C31
\* ------------------------------------------------------------------------
\* single settlement request p carries a token address of its own
CarriesTokenAddress(p) ==
    \E addr \in {p.usdcAddress, p.contractAddress, p.verifyingContract,
                  p.domainVerifyingContract} :
        addr \notin {Undefined, "0x"} /\ Len(addr) >= 42

\* C31: a single settlement that carries a token address of its own and
\* resolves to a network of the registry does not fail for want of a
\* registry token address of that network.
C31_ExplicitAddressSuffices ==
    \A t \in Tasks :
        (/\ proc[t].kind = "single"
         /\ CarriesTokenAddress(proc[t])
         /\ proc[t].networkName \in NETWORK_CONFIGS)
        => proc[t].caught # "USDC contract not configured"

\* ------------------------------------------------------------------------
\* C32
\* ------------------------------------------------------------------------
\* C32: whatever the interleaving of the requests that read a record
\* stored without network, the record with the defaults filled in is
\* written to the store by at most one of them, and at most once.
C32_MigrationWrittenOnce ==
    \A t, u \in Procs :
        /\ proc[t].migrated <= 1
        /\ (t # u /\ proc[t].facilitatorId = proc[u].facilitatorId)
              => ~(proc[t].migrated > 0 /\ proc[u].migrated > 0)

\* ------------------------------------------------------------------------
\* C33
\* ------------------------------------------------------------------------
\* C33: a random selection that answers with a facilitator answers with
\* one whose status is active and whose network is the requested one, and
\* it answers 404 otherwise.
C33_SelectsActiveOnNetwork ==
    \A t \in Tasks : (proc[t].kind = "random" /\ proc[t].pc = "done") =>
        IF proc[t].resp.status = 200
        THEN /\ proc[t].resp.facilitator.status = "active"
             /\ proc[t].resp.facilitator.network = proc[t].networkName
        ELSE proc[t].resp.status = 404

\* ------------------------------------------------------------------------
\* C34
\* ------------------------------------------------------------------------
\* request t is a settlement of facilitator id that has answered success
SettledWith(t, id) ==
    /\ proc[t].kind \in {"single", "batch"}
    /\ proc[t].facilitatorId = id
    /\ proc[t].pc = "done" /\ proc[t].resp.status = 200

\* C34: when the two requests are settlements of one facilitator and both
\* have answered success, the facilitator's totalPayments, 0 at the start,
\* is 2.
C34_EverySettlementCounted ==
    \A id \in Ids :
        (SettledWith("t1", id) /\ SettledWith("t2", id) /\ store[id] # NoRec)
        => store[id].totalPayments = 2

\* a delete request for facilitator id has completed with its 200
DeleteCompleted(id) ==
    \E t \in Tasks :
        /\ proc[t].kind = "delete"
        /\ proc[t].facilitatorId = id
        /\ proc[t].pc = "done"
        /\ proc[t].resp.status = 200

\* C35: once a delete of a facilitator has completed, no step stores its
\* record again or adds its id to the active index: a status update or payment
\* record that was running concurrently does not re-create it
C35_DeletedStaysDeleted ==
    [][\A id \in Ids :
          (DeleteCompleted(id) /\ store[id] = NoRec) =>
              /\ store'[id] = NoRec
              /\ (id \notin activeList => id \notin activeList')]_vars

\* no request is between two of its steps
Quiescent == \A t \in Procs : proc[t].pc \in {"idle", "done"}

\* C36: whenever no operation is in progress, the active index holds exactly
\* the ids that have a stored record; after a successful delete the id is in
\* neither
C36_IndexMatchesStore ==
    Quiescent => \A id \in Ids : (id \in activeList) <=> (store[id] # NoRec)

\* every authorization of the batch of request t has a confirmed transaction
AllLegsConfirmed(t) ==
    Cardinality({h \in TxsOf(t) : chain[h].state = "confirmed"}) = proc[t].n

\* C37: a batch that has ended, running alone on a record whose counter was
\* 0, has raised the settlement counter by exactly 1 if all of its legs were
\* confirmed, whatever their number, and has left the counter and the
\* last-use time as they were if any leg failed
C37_BatchCountsOnce ==
    \A t \in Tasks :
        (/\ proc[t].kind = "batch" /\ proc[t].pc = "done" /\ Alone(t)
         /\ proc[t].n >= 1 /\ proc[t].facilitator # NoRec)
        => IF AllLegsConfirmed(t)
           THEN store[proc[t].facilitatorId].totalPayments = 1
           ELSE CounterUntouched(proc[t].facilitatorId)

\* C38: every stored facilitator record with a network has the chain id the
\* registry gives for that network, after creation and after every read,
\* migration and update
C38_ChainIdMatchesNetwork ==
    \A id \in Ids :
        (store[id] # NoRec /\ store[id].network # Undefined)
        => store[id].chainId = ChainIdOf(store[id].network)

C40_DomainOfValueNetwork ==
    \A t \in Tasks :
        (proc[t].kind = "client" /\ proc[t].typedData # NoRec)
        => /\ proc[t].typedData.domain = proc[t].networkConfig.erc3009Domain
           /\ proc[t].typedData.domain.chainId = ChainIdOf(proc[t].networkName)

====
